---- MODULE Spec2Model ----
(***************************************************************************)
(* Model of find-books-bot: the Kindle send-lock guard of bot.py           *)
(* (kindle_sending_locks, process_kindle_send, cleanup_locks_periodically) *)
(* and the session client of flibusta_parser.py (FlibustaParser).          *)
(*                                                                         *)
(* Text is modelled as sequences of one-character strings, so that         *)
(* formatting, splitting and substring tests are computed, not assumed.    *)
(***************************************************************************)
EXTENDS Integers, Sequences, FiniteSets, TLC

\* ------------------------------------------------------------------ bounds

\* Seconds that pass in one step of the clock.
TickLen == 300

\* ------------------------------------------------------- program constants

\* cleanup_expired_locks: "current_time - lock_time > 300".
LOCK_EXPIRY == 300

\* cleanup_locks_periodically: asyncio.sleep(300) after a sweep.
SWEEP_PERIOD == 300

\* cleanup_locks_periodically: asyncio.sleep(60) after a failed sweep.
SWEEP_RETRY == 60

\* ------------------------------------------------------------------- text

\* s[i..j] of a sequence, empty when i > j.
Slice(s, i, j) == [k \in 1..(j - i + 1) |-> s[i + k - 1]]

\* Python's "sub in s" on strings.
Contains(s, sub) ==
    \E i \in 1..(Len(s) - Len(sub) + 1) : Slice(s, i, i + Len(sub) - 1) = sub

\* Python's s.startswith(prefix).
StartsWith(s, prefix) ==
    /\ Len(prefix) <= Len(s)
    /\ Slice(s, 1, Len(prefix)) = prefix

\* Index of the first occurrence of the character c in s, 0 when absent.
FirstIndex(s, c) ==
    IF \E i \in 1..Len(s) : s[i] = c
    THEN CHOOSE i \in 1..Len(s) : s[i] = c /\ \A j \in 1..(i - 1) : s[j] # c
    ELSE 0

\* Python's s.split(c, 1): at most one split, at the first c.
SplitOnce(s, c) ==
    LET i == FirstIndex(s, c)
    IN  IF i = 0 THEN <<s>> ELSE <<Slice(s, 1, i - 1), Slice(s, i + 1, Len(s))>>

DigitChar(d) == <<"0", "1", "2", "3", "4", "5", "6", "7", "8", "9">>[d + 1]

\* Python's f"{n}" for a non-negative int.
RECURSIVE IntToStr(_)
IntToStr(n) ==
    IF n < 10 THEN <<DigitChar(n)>> ELSE IntToStr(n \div 10) \o <<DigitChar(n % 10)>>

\* Python's str.isspace() on one character.
IsSpace(c) == c \in {" ", "\t", "\n"}

\* Python's s.strip(), as get_text(strip=True) applies it to the text of an element.
RECURSIVE Strip(_)
Strip(s) ==
    IF s = <<>> THEN <<>>
    ELSE IF IsSpace(s[1]) THEN Strip(Tail(s))
    ELSE IF IsSpace(s[Len(s)]) THEN Strip(SubSeq(s, 1, Len(s) - 1))
    ELSE s

\* re.sub(r'\s+', ' ', s): every run of whitespace becomes one space.
RECURSIVE CollapseSpaces(_)
CollapseSpaces(s) ==
    IF s = <<>> THEN <<>>
    ELSE IF IsSpace(s[1])
         THEN IF Len(s) > 1 /\ IsSpace(s[2]) THEN CollapseSpaces(Tail(s))
              ELSE <<" ">> \o CollapseSpaces(Tail(s))
         ELSE <<s[1]>> \o CollapseSpaces(Tail(s))

\* -------------------------------------------------------------- lock guard

\* Telegram ids of the users pressing the button (callback.from_user.id).
Users == {7, 12}

\* callback.data of the buttons routed to process_kindle_send.
KindleCallbacks == {<<"k", "i", "n", "d", "l", "e", "_", "4", "2">>}

\* The invocations of process_kindle_send that may be in flight at once.
Handlers == {1, 2}

\* The saturated age of a lock: every age above the expiry reads the same.
MaxAge == LOCK_EXPIRY + 1

VARIABLES
    kindle_sending_locks, \* lock_key -> seconds since set_kindle_sending_lock stored time.time()
    kindle_sent_books,    \* rows of the kindle_sent_books table: <<telegram_id, book_id>>
    sweep_wait,           \* seconds until cleanup_locks_periodically wakes from its sleep
    hpc,                  \* handler -> the await at which the invocation is suspended
    huser,                \* handler -> callback.from_user.id
    hbook,                \* handler -> book_id (callback.data.split("_", 1)[1])
    key_error,            \* a del of an absent key has raised KeyError
    last_op               \* the remove_kindle_sending_lock or cleanup_expired_locks call
                          \* made by the last step, if it made one

lockVars == <<kindle_sending_locks, kindle_sent_books, sweep_wait, hpc, huser, hbook,
              key_error, last_op>>

\* One FlibustaParser session and the call in progress on it.
VARIABLES
    is_authenticated,     \* self.is_authenticated
    user_id,              \* self.user_id, <<>> for None
    ppc,                  \* the request the call in progress awaits, "ready" between calls
    trace,                \* the requests and sleeps of the current (or last) call, in order
    at_call,              \* is_authenticated and user_id when the call was made
    ret                   \* the value the last call returned

parserVars == <<is_authenticated, user_id, ppc, trace, at_call, ret>>

\* The FlibustaParser sessions of the bot's handlers.
VARIABLES
    skind,                \* handler -> the handler function it runs, "none" when idle
    sblock,               \* handler -> the "async with FlibustaParser()" block it is in
                          \* or will enter next
    sinside,              \* handler -> it is inside that block
    sawait,               \* handler -> the awaits it has passed inside the block
    sopen                 \* handler -> the sessions it has opened and not closed

sessionVars == <<skind, sblock, sinside, sawait, sopen>>

\* The front end of one chat: the stored search and the message it shows.
VARIABLES
    search_results,       \* state data 'search_results', <<>> when the state holds none
    shown,                \* the results message on screen: its books, page and buttons
    pressed,              \* the page button pressed last and what the handler parsed
    routed                \* the callback dispatched last and the handler that got it

frontVars == <<search_results, shown, pressed, routed>>

\* The book card and download handlers of one chat.
VARIABLES
    downloaded_books,     \* rows of the downloaded_books table: <<title, author, format>>
    last_run               \* the last run of a handler: what it was given and what it did

cardVars == <<downloaded_books, last_run>>

\* The administrators and the admin commands in progress.
VARIABLES
    admin_users,          \* telegram_id column of the admin_users table
    apc                   \* user -> the await at which the user's command is suspended

adminVars == <<admin_users, apc>>

vars == <<lockVars, parserVars, sessionVars, frontVars, cardVars, adminVars>>

\* lock_key = f"{telegram_id}_{book_id}"
LockKey(telegram_id, book_id) == IntToStr(telegram_id) \o <<"_">> \o book_id

\* Mutant: the key is looked up with its two parts swapped.
is_kindle_sending_locked_swapped(locks, telegram_id, book_id) ==
    (book_id \o <<"_">> \o IntToStr(telegram_id)) \in DOMAIN locks

\* is_kindle_sending_locked: lock_key in kindle_sending_locks
is_kindle_sending_locked(locks, telegram_id, book_id) ==
    LockKey(telegram_id, book_id) \in DOMAIN locks

\* set_kindle_sending_lock: kindle_sending_locks[lock_key] = time.time()
set_kindle_sending_lock(locks, telegram_id, book_id) ==
    [k \in DOMAIN locks \cup {LockKey(telegram_id, book_id)} |->
        IF k = LockKey(telegram_id, book_id) THEN 0 ELSE locks[k]]

\* Python's "del d[key]": KeyError when the key is absent.
DelItem(locks, key) ==
    IF key \in DOMAIN locks
    THEN [locks |-> [k \in DOMAIN locks \ {key} |-> locks[k]], raised |-> FALSE]
    ELSE [locks |-> locks, raised |-> TRUE]

\* Mutant: the del without the membership test before it.
remove_kindle_sending_lock_unchecked(locks, telegram_id, book_id) ==
    DelItem(locks, LockKey(telegram_id, book_id))

\* remove_kindle_sending_lock: if lock_key in kindle_sending_locks: del ...
remove_kindle_sending_lock(locks, telegram_id, book_id) ==
    IF LockKey(telegram_id, book_id) \in DOMAIN locks
    THEN DelItem(locks, LockKey(telegram_id, book_id))
    ELSE [locks |-> locks, raised |-> FALSE]

\* Mutant: the subtraction the wrong way round, lock_time - current_time > 300.
IsExpired_reversed(age) == (0 - age) > LOCK_EXPIRY

\* cleanup_expired_locks: "if current_time - lock_time > 300"
IsExpired(age) == age > LOCK_EXPIRY

\* cleanup_expired_locks: the keys the first loop collects in expired_keys.
expired_keys(locks) == {k \in DOMAIN locks : IsExpired(locks[k])}

\* cleanup_expired_locks: "for key in expired_keys: del kindle_sending_locks[key]";
\* the first del of an absent key raises and ends the loop.
cleanup_expired_locks(locks) ==
    IF \E k \in expired_keys(locks) : DelItem(locks, k).raised
    THEN [locks |-> locks, raised |-> TRUE]
    ELSE [locks |-> [k \in DOMAIN locks \ expired_keys(locks) |-> locks[k]],
          raised |-> FALSE]

\* cleanup_locks_periodically: the sleep that follows a sweep.
SweepSleep(raised) == IF raised THEN SWEEP_RETRY ELSE SWEEP_PERIOD

NoOp == [op |-> "none", keys |-> {}, after_sweep |-> FALSE]

LockInit ==
    /\ kindle_sending_locks = <<>>
    /\ kindle_sent_books = {}
    /\ sweep_wait = 0
    /\ hpc = [h \in Handlers |-> "idle"]
    /\ huser = [h \in Handlers |-> 0]
    /\ hbook = [h \in Handlers |-> <<>>]
    /\ key_error = FALSE
    /\ last_op = NoOp

HKey(h) == LockKey(huser[h], hbook[h])

\* The invocation h is suspended at (or returns to) pc.
Move(h, pc) ==
    /\ hpc' = [hpc EXCEPT ![h] = pc]
    /\ IF pc = "idle"
       THEN /\ huser' = [huser EXCEPT ![h] = 0]
            /\ hbook' = [hbook EXCEPT ![h] = <<>>]
       ELSE UNCHANGED <<huser, hbook>>

\* A step of h that touches no lock.
Step(h, pc) ==
    /\ Move(h, pc)
    /\ last_op' = NoOp
    /\ UNCHANGED <<kindle_sending_locks, key_error>>

\* h calls remove_kindle_sending_lock(callback.from_user.id, book_id) and goes on
\* to pc; a KeyError leaves the handler.
Release(h, pc) ==
    LET r == remove_kindle_sending_lock(kindle_sending_locks, huser[h], hbook[h])
    IN  /\ kindle_sending_locks' = r.locks
        /\ key_error' = (key_error \/ r.raised)
        /\ last_op' = [op |-> "remove", keys |-> {HKey(h)},
                       after_sweep |-> (last_op.op = "cleanup" /\ HKey(h) \in last_op.keys)]
        /\ Move(h, IF r.raised THEN "idle" ELSE pc)

\* process_kindle_send, "except Exception": remove the lock, report, return.
ExceptHandler(h) == Release(h, "idle")

\* An awaited Telegram call (callback.answer, message.answer) returns and the
\* handler goes on to pc, or raises into the except block.
Answer(h, pc) ==
    \E raises \in BOOLEAN :
        IF raises THEN ExceptHandler(h) ELSE Step(h, pc)

\* process_kindle_send up to its first await: the age check of the message, then
\* is_kindle_sending_locked and set_kindle_sending_lock with no await between.
ProcessKindleSend(h) ==
    /\ hpc[h] = "idle"
    /\ \E u \in Users, data \in KindleCallbacks, too_old \in BOOLEAN :
        LET book_id == SplitOnce(data, "_")[2]
        IN  /\ huser' = [huser EXCEPT ![h] = u]
            /\ hbook' = [hbook EXCEPT ![h] = book_id]
            /\ UNCHANGED key_error
            /\ last_op' = NoOp
            /\ IF too_old
               THEN /\ hpc' = [hpc EXCEPT ![h] = "answer_too_old"]
                    /\ UNCHANGED kindle_sending_locks
               ELSE IF is_kindle_sending_locked(kindle_sending_locks, u, book_id)
               THEN /\ hpc' = [hpc EXCEPT ![h] = "answer_busy"]
                    /\ UNCHANGED kindle_sending_locks
               ELSE /\ kindle_sending_locks' =
                            set_kindle_sending_lock(kindle_sending_locks, u, book_id)
                    /\ hpc' = [hpc EXCEPT ![h] = "get_email"]
    /\ UNCHANGED <<kindle_sent_books, sweep_wait, parserVars, sessionVars, frontVars, cardVars, adminVars>>

\* "Слишком старый запрос": the answer returns, or raises into the except block,
\* where book_id is unbound: the handler ends with no lock touched.
AnswerTooOld(h) ==
    /\ hpc[h] = "answer_too_old"
    /\ Step(h, "idle")
    /\ UNCHANGED <<kindle_sent_books, sweep_wait, parserVars, sessionVars, frontVars, cardVars, adminVars>>

\* "Отправка уже выполняется": the invocation that was refused the lock.
AnswerBusy(h) ==
    /\ hpc[h] = "answer_busy"
    /\ Answer(h, "idle")
    /\ UNCHANGED <<kindle_sent_books, sweep_wait, parserVars, sessionVars, frontVars, cardVars, adminVars>>

\* await get_user_kindle_email: an address, None (the lock is removed at once),
\* or a database error.
GetKindleEmail(h) ==
    /\ hpc[h] = "get_email"
    /\ \E res \in {"email", "none", "raise"} :
        CASE res = "email" -> Step(h, "login_details")
          [] res = "none" -> Release(h, "answer_no_email")
          [] OTHER -> ExceptHandler(h)
    /\ UNCHANGED <<kindle_sent_books, sweep_wait, parserVars, sessionVars, frontVars, cardVars, adminVars>>

\* "Настройте Kindle email": the two answers after the lock was removed.
AnswerNoEmail(h) ==
    /\ hpc[h] = "answer_no_email"
    /\ Answer(h, "idle")
    /\ UNCHANGED <<kindle_sent_books, sweep_wait, parserVars, sessionVars, frontVars, cardVars, adminVars>>

\* await parser.login() of the first and of the second session.
Login(h) ==
    /\ hpc[h] \in {"login_details", "login_download"}
    /\ \E ok \in BOOLEAN :
        IF ok
        THEN Step(h, IF hpc[h] = "login_details" THEN "get_book_details"
                     ELSE "download_book")
        ELSE Step(h, "answer_and_return")
    /\ UNCHANGED <<kindle_sent_books, sweep_wait, parserVars, sessionVars, frontVars, cardVars, adminVars>>

\* An answer followed by a plain return: "Ошибка авторизации", "Книга уже была
\* отправлена", "Не удалось скачать книгу". The lock is not removed.
AnswerAndReturn(h) ==
    /\ hpc[h] = "answer_and_return"
    /\ Answer(h, "idle")
    /\ UNCHANGED <<kindle_sent_books, sweep_wait, parserVars, sessionVars, frontVars, cardVars, adminVars>>

\* await parser.get_book_details: a record with title and author, or None or a
\* record without author, on which book_details['author'] raises.
GetBookDetails(h) ==
    /\ hpc[h] = "get_book_details"
    /\ \E res \in {"record", "no_author", "none"} :
        IF res = "record" THEN Step(h, "check_already_sent") ELSE ExceptHandler(h)
    /\ UNCHANGED <<kindle_sent_books, sweep_wait, parserVars, sessionVars, frontVars, cardVars, adminVars>>

\* await check_kindle_book_already_sent: COUNT(*) > 0, False on a database error.
CheckAlreadySent(h) ==
    /\ hpc[h] = "check_already_sent"
    /\ \E db_error \in BOOLEAN :
        LET already_sent == ~db_error /\ <<huser[h], hbook[h]>> \in kindle_sent_books
        IN  Step(h, IF already_sent THEN "answer_and_return" ELSE "answer_sending")
    /\ UNCHANGED <<kindle_sent_books, sweep_wait, parserVars, sessionVars, frontVars, cardVars, adminVars>>

\* await callback.answer("Отправляю на Kindle...")
AnswerSending(h) ==
    /\ hpc[h] = "answer_sending"
    /\ Answer(h, "login_download")
    /\ UNCHANGED <<kindle_sent_books, sweep_wait, parserVars, sessionVars, frontVars, cardVars, adminVars>>

\* await parser.download_book, then KindleSender.send_book_to_kindle, which is a
\* plain call: no other task runs between the download and the end of the mail.
DownloadAndSend(h) ==
    /\ hpc[h] = "download_book"
    /\ \E res \in {"no_content", "mailed", "mail_failed"} :
        CASE res = "no_content" -> Step(h, "answer_and_return")
          [] res = "mailed" -> Step(h, "save_kindle_sent_book")
          [] OTHER -> Release(h, "answer_mail_failed")
    /\ UNCHANGED <<kindle_sent_books, sweep_wait, parserVars, sessionVars, frontVars, cardVars, adminVars>>

\* await save_kindle_sent_book: the row is inserted, or the database raises.
SaveKindleSentBook(h) ==
    /\ hpc[h] = "save_kindle_sent_book"
    /\ \E raises \in BOOLEAN :
        IF raises
        THEN ExceptHandler(h) /\ UNCHANGED kindle_sent_books
        ELSE /\ Step(h, "answer_mailed")
             /\ kindle_sent_books' = kindle_sent_books \cup {<<huser[h], hbook[h]>>}
    /\ UNCHANGED <<sweep_wait, parserVars, sessionVars, frontVars, cardVars, adminVars>>

\* The answers after a successful mail, then remove_kindle_sending_lock; the
\* plain-text retry may raise into the except block, which removes the lock too.
AnswerMailed(h) ==
    /\ hpc[h] = "answer_mailed"
    /\ \E raises \in BOOLEAN :
        IF raises THEN ExceptHandler(h) ELSE Release(h, "idle")
    /\ UNCHANGED <<kindle_sent_books, sweep_wait, parserVars, sessionVars, frontVars, cardVars, adminVars>>

\* The answers after a failed mail; the lock was removed before them.
AnswerMailFailed(h) ==
    /\ hpc[h] = "answer_mail_failed"
    /\ Answer(h, "idle")
    /\ UNCHANGED <<kindle_sent_books, sweep_wait, parserVars, sessionVars, frontVars, cardVars, adminVars>>

\* cleanup_locks_periodically: one turn of the loop, cleanup_expired_locks and
\* the sleep that follows it.
CleanupLocksPeriodically ==
    /\ sweep_wait = 0
    /\ LET r == cleanup_expired_locks(kindle_sending_locks)
       IN  /\ kindle_sending_locks' = r.locks
           /\ sweep_wait' = SweepSleep(r.raised)
           /\ key_error' = (key_error \/ r.raised)
           /\ last_op' = [op |-> "cleanup",
                          keys |-> DOMAIN kindle_sending_locks \ DOMAIN r.locks,
                          after_sweep |-> FALSE]
    /\ UNCHANGED <<kindle_sent_books, hpc, huser, hbook, parserVars, sessionVars, frontVars, cardVars, adminVars>>

Min(a, b) == IF a < b THEN a ELSE b

Max(a, b) == IF a < b THEN b ELSE a

\* TickLen seconds pass: every lock ages, the sweep's sleep runs down. The event
\* loop resumes the sweep when its sleep is over, before more time passes; what
\* else happens at that instant may come before or after it.
Tick ==
    /\ sweep_wait > 0
    /\ kindle_sending_locks' =
           [k \in DOMAIN kindle_sending_locks |->
               Min(kindle_sending_locks[k] + TickLen, MaxAge)]
    /\ sweep_wait' = Max(sweep_wait - TickLen, 0)
    /\ last_op' = NoOp
    /\ UNCHANGED <<kindle_sent_books, hpc, huser, hbook, key_error, parserVars, sessionVars, frontVars, cardVars, adminVars>>

HandlerStep(h) ==
    \/ ProcessKindleSend(h)
    \/ AnswerTooOld(h)
    \/ AnswerBusy(h)
    \/ GetKindleEmail(h)
    \/ AnswerNoEmail(h)
    \/ Login(h)
    \/ AnswerAndReturn(h)
    \/ GetBookDetails(h)
    \/ CheckAlreadySent(h)
    \/ AnswerSending(h)
    \/ DownloadAndSend(h)
    \/ SaveKindleSentBook(h)
    \/ AnswerMailed(h)
    \/ AnswerMailFailed(h)

LockNext ==
    \/ \E h \in Handlers : HandlerStep(h)
    \/ CleanupLocksPeriodically
    \/ Tick

\* ----------------------------------------------------------- FlibustaParser

\* self.base_url, the default of __init__.
BASE_URL == <<"h", "t", "t", "p", "s", ":", "/", "/", "f", "l", "i", "b", "u", "s", "t", "a", ".", "i", "s">>

\* f"{self.base_url}/user/login"
LoginUrl == BASE_URL \o <<"/", "u", "s", "e", "r", "/", "l", "o", "g", "i", "n">>

\* f"{self.base_url}/user"
ProfileUrl == BASE_URL \o <<"/", "u", "s", "e", "r">>

\* f"{self.base_url}/user/logout"
LogoutUrl == BASE_URL \o <<"/", "u", "s", "e", "r", "/", "l", "o", "g", "o", "u", "t">>

\* f"{self.base_url}/booksearch?ask={encoded_query}", the query left out.
SearchUrl == BASE_URL \o <<"/", "b", "o", "o", "k", "s", "e", "a", "r", "c", "h", "?", "a", "s", "k", "=">>

\* f"{self.base_url}/b/{book_id}"
BookUrl(book_id) == BASE_URL \o <<"/", "b", "/">> \o book_id

LowerCase == <<"a", "b", "c", "d", "e", "f", "g", "h", "i", "j", "k", "l", "m", "n", "o", "p", "q", "r", "s", "t", "u", "v", "w", "x", "y", "z">>

UpperCase == <<"A", "B", "C", "D", "E", "F", "G", "H", "I", "J", "K", "L", "M", "N", "O", "P", "Q", "R", "S", "T", "U", "V", "W", "X", "Y", "Z">>

\* The characters of s that are in the alphabet from replaced by those of to.
MapCase(s, from, to) ==
    [i \in 1..Len(s) |->
        IF \E k \in 1..26 : from[k] = s[i]
        THEN to[CHOOSE k \in 1..26 : from[k] = s[i]]
        ELSE s[i]]

\* str.lower() on ASCII text.
Lower(format_type) == MapCase(format_type, UpperCase, LowerCase)

\* str.upper() on ASCII text.
Upper(format_type) == MapCase(format_type, LowerCase, UpperCase)

\* f"{self.base_url}/b/{book_id}/{format_type.lower()}"
DownloadUrl(book_id, format_type) == BookUrl(book_id) \o <<"/">> \o Lower(format_type)

\* HTTP statuses the site answers with.
Statuses == {200, 206, 404, 503}

\* A response: err is "connect" when the request raises, "body" when reading the
\* body of the answer raises; url is the final URL after redirects; text is the
\* body; forms, links and page are what BeautifulSoup finds in it.
Response(err, status, url, text, forms, links, page) ==
    [err |-> err, status |-> status, url |-> url, text |-> text, forms |-> forms,
     links |-> links, page |-> page]

NoResponse == Response("none", 0, <<>>, <<>>, <<>>, <<>>, <<>>)

ConnectError == Response("connect", 0, <<>>, <<>>, <<>>, <<>>, <<>>)

\* The answers to GET /user/login: a form is its method attribute and the value
\* of its csrf_token input (<<>> when it has none).
LoginPageResponses ==
    {ConnectError}
    \cup {Response("none", st, LoginUrl, <<>>, <<>>, <<>>, <<>>) : st \in Statuses \ {200}}
    \cup {Response(e, 200, LoginUrl, <<>>, forms, <<>>, <<>>) :
            e \in {"none", "body"},
            forms \in {<<>>,
                       <<[method |-> "get", csrf |-> <<>>]>>,
                       <<[method |-> "post", csrf |-> <<>>]>>,
                       <<[method |-> "get", csrf |-> <<>>],
                         [method |-> "post", csrf |-> <<"t">>]>>}}

\* Final URLs of the answer to the credential POST: the login page served again,
\* the account page, the front page.
PostUrls == {LoginUrl, BASE_URL \o <<"/", "u", "s", "e", "r", "/", "4", "2">>, BASE_URL \o <<"/">>}

\* Bodies of the answer to the credential POST: with and without a logout link.
PostBodies == {<<"<", "a", " ", "h", "r", "e", "f", "=", "/", "l", "o", "g", "o", "u", "t", ">">>, <<"<", "f", "o", "r", "m", ">">>}

LoginPostResponses ==
    {ConnectError}
    \cup {Response(e, st, u, b, <<>>, <<>>, <<>>) :
            e \in {"none", "body"}, st \in {200, 503}, u \in PostUrls, b \in PostBodies}

\* The answers to GET /user: links holds the href of every anchor of the page.
ProfileResponses ==
    {ConnectError, Response("none", 404, ProfileUrl, <<>>, <<>>, <<>>, <<>>)}
    \cup {Response("none", 200, ProfileUrl, <<>>, <<>>, links, <<>>) :
            links \in {<<>>, <<<<"/", "n", "o", "d", "e">>>>, <<<<"/", "n", "o", "d", "e">>, <<"/", "u", "s", "e", "r", "/", "4", "2">>>>,
                       <<<<"/", "u", "s", "e", "r", "/", "m", "e">>>>}}

\* The answers to the GET of download_book: with a status other than 200 the
\* body is not read; with 200, response.read() gives the bytes or raises.
DownloadResponses ==
    {ConnectError}
    \cup {Response("none", st, <<>>, <<>>, <<>>, <<>>, <<>>) : st \in Statuses \ {200}}
    \cup {Response(e, 200, <<>>, <<>>, <<>>, <<>>, <<>>) : e \in {"none", "body"}}

IsDigit(c) == c \in {"0", "1", "2", "3", "4", "5", "6", "7", "8", "9"}

\* re \w on ASCII text.
IsWordChar(c) ==
    \/ IsDigit(c)
    \/ c = "_"
    \/ \E k \in 1..26 : LowerCase[k] = c \/ UpperCase[k] = c

\* The longest run of digits of s that starts at index i.
RECURSIVE DigitRun(_, _)
DigitRun(s, i) ==
    IF i <= Len(s) /\ IsDigit(s[i]) THEN <<s[i]>> \o DigitRun(s, i + 1) ELSE <<>>

\* re.search(prefix + r'(\d+)', s).group(1), <<>> when there is no match.
SearchNumberAfter(s, prefix) ==
    LET hits == {i \in 1..(Len(s) - Len(prefix)) :
                    /\ Slice(s, i, i + Len(prefix) - 1) = prefix
                    /\ IsDigit(s[i + Len(prefix)])}
    IN  IF hits = {} THEN <<>>
        ELSE DigitRun(s, (CHOOSE i \in hits : \A j \in hits : i <= j) + Len(prefix))

\* An event of the trace: a request with its answer, or a sleep.
Request(kind, url, data, resp) == [kind |-> kind, url |-> url, data |-> data, resp |-> resp]

\* asyncio.sleep(1.0)
Sleep == Request("sleep", <<>>, {}, NoResponse)

\* The trace with the answer to its last request filled in.
Answered(tr, resp) == [tr EXCEPT ![Len(tr)].resp = resp]

\* Mutant: soup.find('form'), the first form whatever its method.
login_form_any(resp) == IF Len(resp.forms) > 0 THEN 1 ELSE 0

\* login: soup.find('form', {'method': 'post'}), 0 when there is none.
login_form(resp) ==
    IF \E i \in 1..Len(resp.forms) : resp.forms[i].method = "post"
    THEN CHOOSE i \in 1..Len(resp.forms) :
            /\ resp.forms[i].method = "post"
            /\ \A j \in 1..(i - 1) : resp.forms[j].method # "post"
    ELSE 0

\* login: the page was fetched and holds the login form.
login_page_ok(resp) == resp.err = "none" /\ resp.status = 200 /\ login_form(resp) # 0

\* login: the fields of login_data; csrf_token only when the form has one.
login_data(resp) ==
    {"name", "pass", "op", "form_build_id", "form_id"}
    \cup (IF resp.forms[login_form(resp)].csrf # <<>> THEN {"csrf_token"} ELSE {})

\* Mutant: the status alone decides.
login_succeeded_status_only(resp) == resp.err = "none" /\ resp.status = 200

\* login: status 200 and ('user' in str(login_response.url) or 'logout' in text)
login_succeeded(resp) ==
    /\ resp.err = "none"
    /\ resp.status = 200
    /\ (Contains(resp.url, <<"u", "s", "e", "r">>) \/ Contains(resp.text, <<"l", "o", "g", "o", "u", "t">>))

\* Mutant: the flag is set as soon as the POST is answered with 200.
authenticated_after_post_early(auth, resp) ==
    IF resp.err # "connect" /\ resp.status = 200 THEN TRUE ELSE auth

\* login: self.is_authenticated = True, only once the markers are found.
authenticated_after_post(auth, resp) == IF login_succeeded(resp) THEN TRUE ELSE auth

\* Mutant: the href of the first anchor is taken without the test that it is a
\* user link.
user_id_after_profile_unchecked(uid, resp) ==
    IF resp.err # "none" \/ resp.status # 200 \/ resp.links = <<>> THEN uid
    ELSE resp.links[1]

\* _get_user_id: the first anchor whose href matches /user/\d+, and its number;
\* an error or another status leaves self.user_id as it is.
user_id_after_profile(uid, resp) ==
    IF resp.err # "none" \/ resp.status # 200 THEN uid
    ELSE LET hits == {i \in 1..Len(resp.links) :
                        SearchNumberAfter(resp.links[i], <<"/", "u", "s", "e", "r", "/">>) # <<>>}
         IN  IF hits = {} THEN uid
             ELSE SearchNumberAfter(resp.links[CHOOSE i \in hits : \A j \in hits : i <= j],
                                    <<"/", "u", "s", "e", "r", "/">>)

\* The arguments of a call: limit of search_books, book_id and format_type of
\* get_book_details and download_book; 0 and <<>> where the call has none.
Args(limit, book_id, format_type) ==
    [limit |-> limit, book_id |-> book_id, format_type |-> format_type]

NoArgs == Args(0, <<>>, <<>>)

ParserInit ==
    /\ is_authenticated = FALSE
    /\ user_id = <<>>
    /\ ppc = "ready"
    /\ trace = <<>>
    /\ at_call = [auth |-> FALSE, uid |-> <<>>, args |-> NoArgs]
    /\ ret = [op |-> "none", value |-> "None"]

\* A call with the arguments args starts: it issues its first request.
CallWith(pc, first, args) ==
    /\ ppc = "ready"
    /\ ppc' = pc
    /\ trace' = <<first>>
    /\ at_call' = [auth |-> is_authenticated, uid |-> user_id, args |-> args]
    /\ ret' = [op |-> "none", value |-> "None"]
    /\ UNCHANGED <<is_authenticated, user_id, lockVars, sessionVars, frontVars, cardVars, adminVars>>

\* A call starts: it issues its first request.
Call(pc, first) == CallWith(pc, first, NoArgs)

\* A call returns value, its last request answered by resp, after the events more.
Return(op, value, resp, more) ==
    /\ ppc' = "ready"
    /\ trace' = Answered(trace, resp) \o more
    /\ ret' = [op |-> op, value |-> value]
    /\ UNCHANGED <<at_call, lockVars, sessionVars, frontVars, cardVars, adminVars>>

\* login, to its first request; without credentials it returns False at once.
LoginCall ==
    \E credentials \in BOOLEAN :
        IF credentials
        THEN Call("login_get", Request("GET", LoginUrl, {}, NoResponse))
        ELSE /\ ppc = "ready"
             /\ trace' = <<>>
             /\ at_call' = [auth |-> is_authenticated, uid |-> user_id, args |-> NoArgs]
             /\ ret' = [op |-> "login", value |-> FALSE]
             /\ UNCHANGED <<is_authenticated, user_id, ppc, lockVars, sessionVars, frontVars, cardVars, adminVars>>

\* login: the login page arrives; without the form, or on an error, False.
LoginGetPage ==
    /\ ppc = "login_get"
    /\ \E resp \in LoginPageResponses :
        IF login_page_ok(resp)
        THEN /\ ppc' = "login_post"
             /\ trace' = Answered(trace, resp)
                            \o <<Request("POST", LoginUrl, login_data(resp), NoResponse)>>
             /\ UNCHANGED <<at_call, ret, lockVars, sessionVars, frontVars, cardVars, adminVars>>
        ELSE Return("login", FALSE, resp, <<>>)
    /\ UNCHANGED <<is_authenticated, user_id>>

\* login: the credential POST is answered; on success the flag is set and
\* _get_user_id asks for the profile.
LoginPost ==
    /\ ppc = "login_post"
    /\ \E resp \in LoginPostResponses :
        /\ is_authenticated' = authenticated_after_post(is_authenticated, resp)
        /\ IF login_succeeded(resp)
           THEN /\ ppc' = "login_profile"
                /\ trace' = Answered(trace, resp)
                               \o <<Request("GET", ProfileUrl, {}, NoResponse)>>
                /\ UNCHANGED <<at_call, ret, lockVars, sessionVars, frontVars, cardVars, adminVars>>
           ELSE Return("login", FALSE, resp, <<>>)
    /\ UNCHANGED user_id

\* login: _get_user_id ends, whatever the profile request gave; then the sleep
\* and True.
LoginProfile ==
    /\ ppc = "login_profile"
    /\ \E resp \in ProfileResponses :
        /\ user_id' = user_id_after_profile(user_id, resp)
        /\ Return("login", TRUE, resp, <<Sleep>>)
    /\ UNCHANGED is_authenticated

\* logout, to its request; it does nothing on a session that is not authenticated.
LogoutCall ==
    /\ is_authenticated
    /\ Call("logout_get", Request("GET", LogoutUrl, {}, NoResponse))

\* logout: any answer clears the flag and the user id; an error leaves them.
LogoutGet ==
    /\ ppc = "logout_get"
    /\ \E resp \in {ConnectError, Response("none", 200, LogoutUrl, <<>>, <<>>, <<>>, <<>>)} :
        /\ Return("logout", "None", resp, <<>>)
        /\ IF resp.err = "none"
           THEN is_authenticated' = FALSE /\ user_id' = <<>>
           ELSE UNCHANGED <<is_authenticated, user_id>>

\* The record limits of search_books in use.
Limits == {1, 2}

\* search_books / get_book_details / download_book, to the request.
PageCall ==
    \/ \E limit \in Limits :
          CallWith("search_get", Request("GET", SearchUrl, {}, NoResponse),
                   Args(limit, <<>>, <<>>))
    \/ \E book_id \in {<<"4", "2">>} :
          CallWith("details_get", Request("GET", BookUrl(book_id), {}, NoResponse),
                   Args(0, book_id, <<>>))
    \/ \E book_id \in {<<"4", "2">>}, format_type \in {<<"E", "P", "U", "B">>, <<"e", "p", "u", "b">>} :
          CallWith("download_get",
                   Request("GET", DownloadUrl(book_id, format_type), {}, NoResponse),
                   Args(0, book_id, format_type))

\* The answer of a page request is usable: status 200 and a body that reads.
page_ok(resp) == resp.err = "none" /\ resp.status = 200

\* ------------------------------------------------- search_books: extraction

\* The most list items of a search page.
MaxItems == 2

\* An element of a parsed page: a heading "h3" with its text, a list "ul" with its
\* items (each li is the sequence of its anchors), an anchor "a" with href and text.
Node(tag, text, href, items) == [tag |-> tag, text |-> text, href |-> href, items |-> items]

Anchor(href, text) == Node("a", text, href, <<>>)

Heading(text) == Node("h3", text, <<>>, <<>>)

List(items) == Node("ul", <<>>, <<>>, items)

\* 'Найденные книги', transliterated.
MARKER == <<"N", "a", "i", "d", "e", "n", "n", "y", "e", " ", "k", "n", "i", "g", "i">>

\* re.compile(r'/b/\d+') is found in href.
IsBookHref(href) == SearchNumberAfter(href, <<"/", "b", "/">>) # <<>>

\* re.compile(r'/a/\d+') is found in href.
IsAuthorHref(href) == SearchNumberAfter(href, <<"/", "a", "/">>) # <<>>

\* urljoin(self.base_url, href) for a path from the root.
UrlJoin(href) == BASE_URL \o href

\* find: the least of the indices that hit, 0 when none does.
FirstSuch(hits) ==
    IF hits = {} THEN 0 ELSE CHOOSE i \in hits : \A j \in hits : i <= j

\* s[:n]
Take(s, n) == SubSeq(s, 1, Min(n, Len(s)))

\* search_books: the first h3 whose text contains the marker, 0 when none.
marker_heading(doc) ==
    FirstSuch({i \in 1..Len(doc) : doc[i].tag = "h3" /\ Contains(doc[i].text, MARKER)})

\* search_books: books_section = h3.find_next_sibling('ul'), 0 for None.
books_section(doc) ==
    LET h == marker_heading(doc)
    IN  IF h = 0 THEN 0
        ELSE LET after == SubSeq(doc, h + 1, Len(doc))
                 j == FirstSuch({i \in 1..Len(after) : after[i].tag = "ul"})
             IN  IF j = 0 THEN 0 ELSE h + j

\* A record of search_books; <<>> stands for a key the dict does not have.
BookInfo(title, book_url, book_id, author, author_url, author_id, authors) ==
    [title |-> title, book_url |-> book_url, book_id |-> book_id, author |-> author,
     author_url |-> author_url, author_id |-> author_id, authors |-> authors]

\* An item that yields no record ("continue", or an empty title).
NoBook == BookInfo(<<>>, <<>>, <<>>, <<>>, <<>>, <<>>, <<>>)

\* search_books: the title cleaned; get_text has left no span tag to strip.
clean_title(title) == Strip(CollapseSpaces(title))

\* search_books, primary path: the record of one li, NoBook when it has no book
\* link; the first /b/ anchor is the book, the /a/ anchors are the authors.
parse_item(item) ==
    LET b == FirstSuch({i \in 1..Len(item) : IsBookHref(item[i].href)})
        author_links == SelectSeq(item, LAMBDA x : IsAuthorHref(x.href))
    IN  IF b = 0 THEN NoBook
        ELSE BookInfo(
                clean_title(Strip(item[b].text)),
                UrlJoin(item[b].href),
                SearchNumberAfter(item[b].href, <<"/", "b", "/">>),
                IF author_links = <<>> THEN <<>> ELSE Strip(author_links[1].text),
                IF author_links = <<>> THEN <<>> ELSE UrlJoin(author_links[1].href),
                IF author_links = <<>> THEN <<>>
                ELSE SearchNumberAfter(author_links[1].href, <<"/", "a", "/">>),
                IF Len(author_links) > 1
                THEN [i \in 1..Len(author_links) |-> Strip(author_links[i].text)]
                ELSE <<>>)

\* search_books, primary path: "for item in book_items[:limit]", a record appended
\* "if book_info['title']".
primary_records(items, limit) ==
    LET firsts == Take(items, limit)
    IN  SelectSeq([i \in 1..Len(firsts) |-> parse_item(firsts[i])],
                  LAMBDA b : b.title # <<>>)

\* The concatenation of a sequence of sequences.
RECURSIVE Flatten(_)
Flatten(seqs) == IF seqs = <<>> THEN <<>> ELSE Head(seqs) \o Flatten(Tail(seqs))

\* soup.find_all('a'): the anchors of the page in document order.
AllAnchors(doc) ==
    Flatten([i \in 1..Len(doc) |->
                IF doc[i].tag = "a" THEN <<doc[i]>>
                ELSE IF doc[i].tag = "ul" THEN Flatten(doc[i].items)
                ELSE <<>>])

\* search_books, fallback: soup.find_all('a', href=re.compile(r'/b/\d+'))
all_book_links(doc) == SelectSeq(AllAnchors(doc), LAMBDA x : IsBookHref(x.href))

\* Mutant: the links with a blank text are dropped before the cap is applied.
fallback_records_filter_first(doc, limit) ==
    LET firsts == Take(SelectSeq(all_book_links(doc), LAMBDA x : Strip(x.text) # <<>>), limit)
    IN  [i \in 1..Len(firsts) |->
            BookInfo(Strip(firsts[i].text), UrlJoin(firsts[i].href),
                     SearchNumberAfter(firsts[i].href, <<"/", "b", "/">>), <<>>, <<>>, <<>>, <<>>)]

\* search_books, fallback: "for link in all_book_links[:limit]", title, book_url
\* and book_id only, a record appended "if book_info['title']".
fallback_records(doc, limit) ==
    LET firsts == Take(all_book_links(doc), limit)
    IN  SelectSeq([i \in 1..Len(firsts) |->
                      BookInfo(Strip(firsts[i].text), UrlJoin(firsts[i].href),
                               SearchNumberAfter(firsts[i].href, <<"/", "b", "/">>),
                               <<>>, <<>>, <<>>, <<>>)],
                  LAMBDA b : b.title # <<>>)

\* search_books: the records of a page that was fetched.
search_records(doc, limit) ==
    IF books_section(doc) # 0
    THEN primary_records(doc[books_section(doc)].items, limit)
    ELSE fallback_records(doc, limit)

\* The list items of the search pages: a book, a book with its author, a book with
\* two authors, an item without book link, a book whose title is blank.
SearchItems ==
    {<<Anchor(<<"/", "b", "/", "1">>, <<"W", "a", "r">>)>>,
     <<Anchor(<<"/", "a", "/", "5">>, <<"L", "e", "o">>), Anchor(<<"/", "b", "/", "2">>, <<" ", "P", "e", "a", "c", "e", " ", " ", "n", "o", "w">>)>>,
     <<Anchor(<<"/", "b", "/", "4">>, <<"D", "u", "o">>), Anchor(<<"/", "a", "/", "5">>, <<"L", "e", "o">>), Anchor(<<"/", "a", "/", "6">>, <<"A", "n", "n">>)>>,
     <<Anchor(<<"/", "a", "/", "5">>, <<"L", "e", "o">>)>>,
     <<Anchor(<<"/", "b", "/", "3">>, <<" ">>)>>}

\* The sequences of at most n elements of S.
RECURSIVE SeqsUpTo(_, _)
SeqsUpTo(S, n) ==
    IF n = 0 THEN {<<>>}
    ELSE SeqsUpTo(S, n - 1)
            \cup {Append(s, x) : s \in {t \in SeqsUpTo(S, n - 1) : Len(t) = n - 1}, x \in S}

\* The search pages: a heading with or without the marker, or none; a list, before
\* or after the heading, or none; a book anchor outside the list, or none.
SearchPages ==
    {IF list_first THEN list \o head \o tail ELSE head \o list \o tail :
        head \in {<<>>, <<Heading(MARKER \o <<" ", "(", "2", ")">>)>>, <<Heading(<<"N", "a", "i", "d", "e", "n", "n", "y", "e", " ", "a", "v", "t", "o", "r", "y">>)>>},
        list \in {<<>>} \cup {<<List(items)>> : items \in SeqsUpTo(SearchItems, MaxItems)},
        tail \in {<<>>, <<Anchor(<<"/", "b", "/", "7">>, <<"T", "a", "i", "l">>)>>},
        list_first \in BOOLEAN}

\* The answers to the GET of search_books.
SearchResponses ==
    {ConnectError}
    \cup {Response("none", st, <<>>, <<>>, <<>>, <<>>, <<>>) : st \in Statuses \ {200}}
    \cup {Response("body", 200, <<>>, <<>>, <<>>, <<>>, <<>>)}
    \cup {Response("none", 200, <<>>, <<>>, <<>>, <<>>, page) : page \in SearchPages}

\* search_books: [] on another status or an exception; else the records of the
\* page up to the limit, after the sleep.
SearchGet ==
    /\ ppc = "search_get"
    /\ \E resp \in SearchResponses :
        IF page_ok(resp)
        THEN Return("search", search_records(resp.page, at_call.args.limit), resp, <<Sleep>>)
        ELSE Return("search", <<>>, resp, <<>>)
    /\ UNCHANGED <<is_authenticated, user_id>>

\* --------------------------------------------- get_book_details: extraction

\* A book page as BeautifulSoup finds it. h1 is the text of <h1 class="title"> and
\* title that of <title>: <<>> when the element is absent, <<text>> otherwise.
\* anchors are the anchors in document order. annotation is <<>> when there is no
\* <h2>Аннотация</h2>, else <<next>>, the sibling that follows it (name "none" when
\* nothing does). select is <<>> when there is no <select id="useropt">, else
\* <<values>>, the value of each of its options (<<>> for an option without one).
BookPage(h1, title, anchors, annotation, select) ==
    [h1 |-> h1, title |-> title, anchors |-> anchors, annotation |-> annotation,
     select |-> select]

\* An element with its tag name and its text.
Elem(name, text) == [name |-> name, text |-> text]

\* '| Флибуста', transliterated.
SITE_SUFFIX == <<"|", " ", "F", "l", "i", "b", "u", "s", "t", "a">>

\* 'отсутствует', transliterated.
NO_DESCRIPTION == <<"o", "t", "s", "u", "t", "s", "t", "v", "u", "e", "t">>

\* 'Скачать в формате ', transliterated.
DOWNLOAD_AS == <<"S", "k", "a", "c", "h", "a", "t", " ", "v", " ", "f", "o", "r", "m", "a", "t", "e", " ">>

\* Python's s.rstrip().
RECURSIVE RStrip(_)
RStrip(s) ==
    IF s # <<>> /\ IsSpace(s[Len(s)]) THEN RStrip(SubSeq(s, 1, Len(s) - 1)) ELSE s

\* s.split(sub)[0]: what comes before the first sub in s, s itself without one.
BeforeFirst(s, sub) ==
    LET hits == {i \in 1..(Len(s) - Len(sub) + 1) : Slice(s, i, i + Len(sub) - 1) = sub}
    IN  IF hits = {} THEN s
        ELSE SubSeq(s, 1, (CHOOSE i \in hits : \A j \in hits : i <= j) - 1)

\* re.sub(r'\s*\([^)]+\)\s*$', '', s): a trailing "(...)" goes, with the
\* whitespace around it.
strip_format_suffix(s) ==
    LET r == RStrip(s)
        e == Len(r)
        opens == {i \in 1..(e - 2) :
                    /\ r[i] = "("
                    /\ \A k \in (i + 1)..(e - 1) : r[k] # ")"}
    IN  IF e = 0 \/ r[e] # ")" \/ opens = {} THEN s
        ELSE RStrip(SubSeq(r, 1, (CHOOSE i \in opens : \A j \in opens : i <= j) - 1))

\* get_book_details: the title, from h1.title or else from <title>; <<>> unset.
details_title(page) ==
    IF page.h1 # <<>> THEN <<strip_format_suffix(Strip(page.h1[1]))>>
    ELSE IF page.title # <<>>
    THEN LET title_text == Strip(page.title[1])
         IN  <<IF Contains(title_text, SITE_SUFFIX)
               THEN Strip(BeforeFirst(title_text, SITE_SUFFIX))
               ELSE title_text>>
    ELSE <<>>

\* re.compile(r'/g/\d+') is found in href.
IsGenreHref(href) == SearchNumberAfter(href, <<"/", "g", "/">>) # <<>>

\* get_book_details: the genres, texts longer than 2 characters.
details_genres(page) ==
    LET genre_elems == SelectSeq(page.anchors, LAMBDA x : IsGenreHref(x.href))
    IN  SelectSeq([i \in 1..Len(genre_elems) |-> Strip(genre_elems[i].text)],
                  LAMBDA genre_text : Len(genre_text) > 2)

\* get_book_details: the description, <<>> unset.
details_description(page) ==
    IF page.annotation = <<>> THEN <<>>
    ELSE LET next_elem == page.annotation[1]
             desc_text == Strip(next_elem.text)
         IN  IF next_elem.name \in {"none", "br"} THEN <<>>
             ELSE IF desc_text # <<>> /\ desc_text # NO_DESCRIPTION THEN <<desc_text>>
             ELSE <<>>

\* A download link.
DownloadLink(format, url, text) == [format |-> format, url |-> url, text |-> text]

\* get_book_details: a link for each option of the select that has a value.
select_links(page, book_id) ==
    IF page.select = <<>> THEN <<>>
    ELSE LET values == SelectSeq(page.select[1], LAMBDA v : v # <<>>)
         IN  [i \in 1..Len(values) |->
                DownloadLink(Upper(values[i]),
                             BookUrl(book_id) \o <<"/">> \o Lower(Upper(values[i])),
                             DOWNLOAD_AS \o Upper(values[i]))]

\* re.compile(prefix + r'\w+') is found in href.
HasWordAfter(href, prefix) ==
    \E i \in 1..(Len(href) - Len(prefix)) :
        /\ Slice(href, i, i + Len(prefix) - 1) = prefix
        /\ IsWordChar(href[i + Len(prefix)])

\* re.compile(r'/book/\d+/\w+') is found in href.
HasBookFormat(href) ==
    \E i \in 1..(Len(href) - 6) :
        /\ Slice(href, i, i + 5) = <<"/", "b", "o", "o", "k", "/">>
        /\ LET d == Len(DigitRun(href, i + 6))
           IN  /\ d > 0
               /\ i + 6 + d + 1 <= Len(href)
               /\ href[i + 6 + d] = "/"
               /\ IsWordChar(href[i + 6 + d + 1])

\* get_book_details: re.compile(download_patterns[p]) is found in href.
MatchesDownloadPattern(p, href) ==
    CASE p = 1 -> HasWordAfter(href, <<"/", "d", "o", "w", "n", "l", "o", "a", "d", "/">>)
      [] p = 2 -> HasWordAfter(href, <<"/", "g", "e", "t", "/">>)
      [] OTHER -> HasBookFormat(href)

\* re.search(r'\.(\w+)$', s).group(1): what follows the last dot, when that is one
\* or more word characters up to the end; <<>> without a match.
dot_suffix(s) ==
    LET dots == {i \in 1..(Len(s) - 1) :
                    s[i] = "." /\ \A k \in (i + 1)..Len(s) : IsWordChar(s[k])}
    IN  IF dots = {} THEN <<>>
        ELSE SubSeq(s, (CHOOSE i \in dots : \A j \in dots : i <= j) + 1, Len(s))

\* get_book_details: the format of a link, by the suffix of its URL or text, else
\* by a keyword in them, else UNKNOWN.
infer_format(href, text) ==
    LET has(word) == Contains(Lower(text), word) \/ Contains(Lower(href), word)
    IN  IF dot_suffix(href) # <<>> THEN Upper(dot_suffix(href))
        ELSE IF dot_suffix(text) # <<>> THEN Upper(dot_suffix(text))
        ELSE IF has(<<"f", "b", "2">>) THEN <<"F", "B", "2">>
        ELSE IF has(<<"e", "p", "u", "b">>) THEN <<"E", "P", "U", "B">>
        ELSE IF has(<<"m", "o", "b", "i">>) THEN <<"M", "O", "B", "I">>
        ELSE IF has(<<"p", "d", "f">>) THEN <<"P", "D", "F">>
        ELSE IF has(<<"t", "x", "t">>) THEN <<"T", "X", "T">>
        ELSE <<"U", "N", "K", "N", "O", "W", "N">>

\* get_book_details: the links of the anchors that match a download pattern,
\* pattern by pattern.
scan_links(page) ==
    Flatten([p \in 1..3 |->
        LET download_elems ==
                SelectSeq(page.anchors, LAMBDA x : MatchesDownloadPattern(p, x.href))
        IN  [i \in 1..Len(download_elems) |->
                DownloadLink(infer_format(download_elems[i].href,
                                          Strip(download_elems[i].text)),
                             UrlJoin(download_elems[i].href),
                             Strip(download_elems[i].text))]])

\* Mutant: the links are collected whether or not the session is authenticated.
details_download_links_always(page, book_id, auth) ==
    IF select_links(page, book_id) # <<>>
    THEN select_links(page, book_id)
    ELSE scan_links(page)

\* get_book_details: download_links, "if self.is_authenticated"; <<>> unset.
details_download_links(page, book_id, auth) ==
    IF ~auth THEN <<>>
    ELSE IF select_links(page, book_id) # <<>>
    THEN select_links(page, book_id)
    ELSE scan_links(page)

\* get_book_details: author_elem, the first /a/ anchor; <<>> when there is none.
details_author(page) ==
    LET a == FirstSuch({i \in 1..Len(page.anchors) : IsAuthorHref(page.anchors[i].href)})
    IN  IF a = 0 THEN <<>> ELSE <<page.anchors[a]>>

\* get_book_details: book_info; <<>> stands for a key the dict does not have,
\* <<value>> for one it has (genres and download_links are set only when not empty).
book_details(page, book_id, auth) ==
    LET author_elem == details_author(page)
    IN  [book_id |-> book_id,
         book_url |-> BookUrl(book_id),
         title |-> details_title(page),
         author |-> IF author_elem = <<>> THEN <<>> ELSE <<Strip(author_elem[1].text)>>,
         author_url |-> IF author_elem = <<>> THEN <<>> ELSE <<UrlJoin(author_elem[1].href)>>,
         author_id |-> IF author_elem = <<>> THEN <<>>
                       ELSE <<SearchNumberAfter(author_elem[1].href, <<"/", "a", "/">>)>>,
         genres |-> details_genres(page),
         description |-> details_description(page),
         download_links |-> details_download_links(page, book_id, auth)]

\* Mutant: the author is read without the test that the page has one; on a page
\* without author the AttributeError ends the call in "except", which returns None.
details_result_author_unguarded(page, book_id, auth) ==
    IF details_author(page) = <<>> THEN <<>> ELSE <<book_details(page, book_id, auth)>>

\* get_book_details: what it returns from a page that was fetched: book_info.
details_result(page, book_id, auth) == <<book_details(page, book_id, auth)>>

\* The book pages: with and without each of the title elements, the author, the
\* genres, the annotation and what follows it, the format select, download anchors.
DetailPages ==
    {BookPage(h1, title, author \o genres \o links, annotation, select) :
        h1 \in {<<>>, <<<<"W", "a", "r", " ", " ", "(", "f", "b", "2", ")">>>>},
        title \in {<<>>, <<<<"W", "a", "r", " ", "|", " ", "F", "l", "i", "b", "u", "s", "t", "a">>>>},
        author \in {<<>>, <<Anchor(<<"/", "a", "/", "5">>, <<"L", "e", "o">>)>>},
        genres \in {<<>>, <<Anchor(<<"/", "g", "/", "1">>, <<"P", "r", "o", "s", "e">>), Anchor(<<"/", "g", "/", "2">>, <<"S", "F">>)>>},
        links \in {<<>>,
                   <<Anchor(<<"/", "d", "o", "w", "n", "l", "o", "a", "d", "/", "f", "b", "2">>, <<"f", "b", "2">>)>>,
                   <<Anchor(<<"/", "g", "e", "t", "/", "1", ".", "z", "i", "p">>, <<"a", "r", "c", "h", "i", "v", "e">>), Anchor(<<"/", "b", "o", "o", "k", "/", "4", "2", "/", "r", "e", "a", "d">>, <<"R", "e", "a", "d">>)>>},
        annotation \in {<<>>, <<Elem("none", <<>>)>>, <<Elem("br", <<>>)>>,
                        <<Elem("p", <<"A", " ", "s", "t", "o", "r", "y", ".">>)>>, <<Elem("p", NO_DESCRIPTION)>>},
        select \in {<<>>, <<<<>>>>, <<<<<<"f", "b", "2">>, <<"e", "p", "u", "b">>>>>>, <<<<<<>>, <<"d", "j", "v", "u">>>>>>}}

\* The answers to the GET of get_book_details.
DetailResponses ==
    {ConnectError}
    \cup {Response("none", st, <<>>, <<>>, <<>>, <<>>, <<>>) : st \in Statuses \ {200}}
    \cup {Response("body", 200, <<>>, <<>>, <<>>, <<>>, <<>>)}
    \cup {Response("none", 200, <<>>, <<>>, <<>>, <<>>, page) : page \in DetailPages}

\* get_book_details: None (<<>>) on another status or an exception; else the
\* record (<<book_info>>), with download_links only on an authenticated session,
\* after the sleep.
DetailsGet ==
    /\ ppc = "details_get"
    /\ \E resp \in DetailResponses :
        IF page_ok(resp)
        THEN Return("details",
                    details_result(resp.page, at_call.args.book_id, is_authenticated),
                    resp, <<Sleep>>)
        ELSE Return("details", <<>>, resp, <<>>)
    /\ UNCHANGED <<is_authenticated, user_id>>

\* download_book: the bytes on status 200, None otherwise; it never sleeps.
DownloadGet ==
    /\ ppc = "download_get"
    /\ \E resp \in DownloadResponses :
        IF page_ok(resp)
        THEN Return("download", "bytes", resp, <<>>)
        ELSE Return("download", "None", resp, <<>>)
    /\ UNCHANGED <<is_authenticated, user_id>>

ParserNext ==
    \/ LoginCall
    \/ LoginGetPage
    \/ LoginPost
    \/ LoginProfile
    \/ LogoutCall
    \/ LogoutGet
    \/ PageCall
    \/ SearchGet
    \/ DetailsGet
    \/ DownloadGet

\* ------------------------------------------- handlers: FlibustaParser sessions

\* The ClientSession objects that can be alive at once.
MaxSessions == 2

SessionIds == 1..MaxSessions

\* The handlers that talk to the site.
SessionHandlers ==
    {"process_search_query", "process_book_selection_from_search", "process_download",
     "process_kindle_send"}

\* The "async with FlibustaParser() as parser" blocks of a handler.
Blocks(kind) == IF kind = "process_kindle_send" THEN 2 ELSE 1

\* The awaits inside block b of a handler, on its longest path.
BlockAwaits(kind, b) ==
    CASE kind = "process_search_query" -> 5
      [] kind = "process_book_selection_from_search" -> 3
      [] kind = "process_download" -> 6
      [] kind = "process_kindle_send" /\ b = 1 -> 3
      [] OTHER -> 5

\* Every session some handler has open.
AllOpen == UNION {sopen[h] : h \in Handlers}

\* __aenter__: self.session = aiohttp.ClientSession(...), a new object.
aenter(open, alive) == open \cup {CHOOSE s \in SessionIds \ alive : \A t \in SessionIds \ alive : s <= t}

\* Mutant: the session is left open.
aexit_leaves_open(open, session) == open

\* __aexit__: "if self.session: await self.session.close()"
aexit(open, session) == open \ {session}

SessionInit ==
    /\ skind = [h \in Handlers |-> "none"]
    /\ sblock = [h \in Handlers |-> 0]
    /\ sinside = [h \in Handlers |-> FALSE]
    /\ sawait = [h \in Handlers |-> 0]
    /\ sopen = [h \in Handlers |-> {}]

\* The handler h returns, or its exception reaches "except Exception", which
\* reports it and returns.
HandlerEnds(h) ==
    /\ skind' = [skind EXCEPT ![h] = "none"]
    /\ sblock' = [sblock EXCEPT ![h] = 0]
    /\ sinside' = [sinside EXCEPT ![h] = FALSE]
    /\ sawait' = [sawait EXCEPT ![h] = 0]

\* The dispatcher starts a handler for an update.
HandlerStart(h) ==
    /\ skind[h] = "none"
    /\ \E kind \in SessionHandlers : skind' = [skind EXCEPT ![h] = kind]
    /\ sblock' = [sblock EXCEPT ![h] = 1]
    /\ UNCHANGED <<sinside, sawait, sopen, lockVars, parserVars, frontVars, cardVars, adminVars>>

\* An await outside the blocks (an answer, a database call) returns and the
\* handler goes on, or the handler returns early or fails there.
OutsideAwait(h) ==
    /\ skind[h] # "none"
    /\ ~sinside[h]
    /\ \E outcome \in {"return", "raise"} : HandlerEnds(h)
    /\ UNCHANGED <<sopen, lockVars, parserVars, frontVars, cardVars, adminVars>>

\* "async with FlibustaParser() as parser": __init__ and __aenter__.
AEnter(h) ==
    /\ skind[h] # "none"
    /\ ~sinside[h]
    /\ sblock[h] <= Blocks(skind[h])
    /\ SessionIds \ AllOpen # {}
    /\ sopen' = [sopen EXCEPT ![h] = aenter(@, AllOpen)]
    /\ sinside' = [sinside EXCEPT ![h] = TRUE]
    /\ sawait' = [sawait EXCEPT ![h] = 0]
    /\ UNCHANGED <<skind, sblock, lockVars, parserVars, frontVars, cardVars, adminVars>>

\* An await inside the block (parser.login, a request, an answer): the handler
\* goes on, returns from inside the block, or an exception leaves the block. Every
\* way out of the block runs __aexit__ on the session __aenter__ opened, the
\* handler's newest.
BlockAwait(h) ==
    /\ sinside[h]
    /\ \E outcome \in {"continue", "return", "raise"} :
        LET session == CHOOSE s \in sopen[h] : \A t \in sopen[h] : t <= s
        IN  IF outcome = "continue" /\ sawait[h] + 1 < BlockAwaits(skind[h], sblock[h])
            THEN /\ sawait' = [sawait EXCEPT ![h] = @ + 1]
                 /\ UNCHANGED <<skind, sblock, sinside, sopen>>
            ELSE /\ sopen' = [sopen EXCEPT ![h] = aexit(@, session)]
                 /\ IF outcome = "continue" /\ sblock[h] < Blocks(skind[h])
                    THEN /\ sblock' = [sblock EXCEPT ![h] = @ + 1]
                         /\ sinside' = [sinside EXCEPT ![h] = FALSE]
                         /\ sawait' = [sawait EXCEPT ![h] = 0]
                         /\ UNCHANGED skind
                    ELSE HandlerEnds(h)
    /\ UNCHANGED <<lockVars, parserVars, frontVars, cardVars, adminVars>>

SessionNext ==
    \E h \in Handlers :
        \/ HandlerStart(h)
        \/ OutsideAwait(h)
        \/ AEnter(h)
        \/ BlockAwait(h)

\* ------------------------------------------------------------- front end

\* The longest stored result list of the model (search_books is called with
\* limit=100).
MaxBooks == 21

\* The longest query a page button is built with in the model.
MaxQueryLen == 6

\* 10 books on a page: search_results[start_idx:start_idx + 10], (total + 9) // 10.
PAGE_SIZE == 10

\* message.text.strip() of the search messages.
Queries == {<<"w", "a", "r">>, <<"a", "_", "b">>, <<"a", "_", "1">>, <<"a", ".", "b">>}

\* Python's f"{n}" for an int.
PyStr(n) == IF n < 0 THEN <<"-">> \o IntToStr(0 - n) ELSE IntToStr(n)

\* Python's s[start:end].
PySlice(s, start, end) ==
    LET norm(i) == IF i < 0 THEN Max(Len(s) + i, 0) ELSE Min(i, Len(s))
    IN  SubSeq(s, norm(start) + 1, norm(end))

\* Python's s.split("_", 2): at most two splits, at the first two "_".
Split2(s) ==
    LET first == SplitOnce(s, "_")
    IN  IF Len(first) = 1 THEN first ELSE <<first[1]>> \o SplitOnce(first[2], "_")

\* The value of a run of decimal digits.
RECURSIVE DigitsValue(_)
DigitsValue(ds) ==
    IF ds = <<>> THEN 0
    ELSE 10 * DigitsValue(SubSeq(ds, 1, Len(ds) - 1))
         + (CHOOSE d \in 0..9 : DigitChar(d) = ds[Len(ds)])

\* Python's int(s): <<n>>, or <<>> for ValueError. Whitespace around the number
\* is dropped, a sign may lead, and single underscores may stand between digits.
ParseInt(s) ==
    LET t == Strip(s)
        signed == t # <<>> /\ t[1] \in {"+", "-"}
        body == IF signed THEN Tail(t) ELSE t
        valid == /\ body # <<>>
                 /\ \A i \in 1..Len(body) : IsDigit(body[i]) \/ body[i] = "_"
                 /\ IsDigit(body[1]) /\ IsDigit(body[Len(body)])
                 /\ \A i \in 1..(Len(body) - 1) : ~(body[i] = "_" /\ body[i + 1] = "_")
        n == DigitsValue(SelectSeq(body, IsDigit))
    IN  IF ~valid THEN <<>>
        ELSE IF signed /\ t[1] = "-" THEN <<0 - n>> ELSE <<n>>

\* escape_markdown: special_chars; "BACKTICK" stands for the backtick character.
SpecialChars ==
    {"*", "_", "[", "]", "BACKTICK", "#", "+", "-", "=", "|", "{", "}", ".", "!", "(", ")",
     "~", ">", "<", "\\"}

\* escape_markdown, and safe_markdown_text which returns its result: a backslash
\* before every special character.
RECURSIVE escape_markdown(_)
escape_markdown(text) ==
    IF text = <<>> THEN <<>>
    ELSE (IF text[1] \in SpecialChars THEN <<"\\", text[1]>> ELSE <<text[1]>>)
         \o escape_markdown(Tail(text))

\* A page button: its callback_data, and the query and page it was built from.
PageButton(query, page) ==
    [data |-> <<"p", "a", "g", "e", "_">> \o query \o <<"_">> \o PyStr(page), query |-> query, page |-> page]

\* get_pagination_keyboard: the page buttons, back when current_page > 1 and
\* forward when current_page < total_pages.
get_pagination_keyboard(current_page, total_pages, query) ==
    (IF current_page > 1 THEN {PageButton(query, current_page - 1)} ELSE {})
    \cup (IF current_page < total_pages THEN {PageButton(query, current_page + 1)} ELSE {})

\* create_search_results_content: total_pages = (total_books + 9) // 10
total_pages_of(total_books) == (total_books + PAGE_SIZE - 1) \div PAGE_SIZE

\* create_search_results_content: the message with the books of the page and the
\* keyboard.
create_search_results_content(books, page, total_books, query) ==
    [books |-> books,
     page |-> page,
     total_pages |-> total_pages_of(total_books),
     buttons |-> get_pagination_keyboard(page, total_pages_of(total_books), query)]

\* No results message on screen.
NoMessage == [books |-> <<>>, page |-> 0, total_pages |-> 0, buttons |-> {}]

\* No page button pressed yet.
NoPress == [data |-> <<>>, query |-> <<>>, page |-> 0, parsed |-> <<>>]

\* Mutant: the page is cut one record late.
page_books_shifted(results, page) ==
    PySlice(results, (page - 1) * PAGE_SIZE + 1, (page - 1) * PAGE_SIZE + 1 + PAGE_SIZE)

\* process_page_callback: search_results[start_idx:end_idx]
page_books(results, page) ==
    PySlice(results, (page - 1) * PAGE_SIZE, (page - 1) * PAGE_SIZE + PAGE_SIZE)

\* process_page_callback: _, query, page = callback.data.split("_", 2) and
\* page = int(page); <<>> when either raises ValueError.
parse_page_token(data) ==
    LET parts == Split2(data)
    IN  IF Len(parts) # 3 \/ ParseInt(parts[3]) = <<>> THEN <<>>
        ELSE <<[query |-> parts[2], page |-> ParseInt(parts[3])[1]]>>

\* A registered callback handler: its filter, F.data == text when exact and
\* F.data.startswith(text) otherwise, and the handler function.
Route(exact, text, handler) == [exact |-> exact, text |-> text, handler |-> handler]

\* The @dp.callback_query registrations, in the order of the module.
Routes ==
    <<Route(TRUE, <<"n", "o", "_", "a", "c", "t", "i", "o", "n">>, "process_no_action"),
      Route(FALSE, <<"p", "a", "g", "e", "_">>, "process_page_callback"),
      Route(FALSE, <<"s", "e", "l", "e", "c", "t", "_", "b", "o", "o", "k", "_">>, "process_book_selection_from_search"),
      Route(FALSE, <<"b", "o", "o", "k", "_">>, "process_book_selection"),
      Route(FALSE, <<"d", "o", "w", "n", "l", "o", "a", "d", "_">>, "process_download"),
      Route(FALSE, <<"k", "i", "n", "d", "l", "e", "_">>, "process_kindle_send"),
      Route(TRUE, <<"m", "a", "i", "n", "_", "m", "e", "n", "u">>, "back_to_main_menu"),
      Route(TRUE, <<"k", "i", "n", "d", "l", "e", "_", "s", "e", "t", "t", "i", "n", "g", "s">>, "kindle_settings_callback"),
      Route(TRUE, <<"s", "e", "t", "_", "k", "i", "n", "d", "l", "e", "_", "e", "m", "a", "i", "l">>, "set_kindle_email_callback"),
      Route(TRUE, <<"c", "h", "a", "n", "g", "e", "_", "k", "i", "n", "d", "l", "e", "_", "e", "m", "a", "i", "l">>, "change_kindle_email_callback"),
      Route(TRUE, <<"c", "o", "n", "f", "i", "r", "m", "_", "k", "i", "n", "d", "l", "e", "_", "e", "m", "a", "i", "l">>, "confirm_kindle_email_callback"),
      Route(TRUE, <<"d", "o", "w", "n", "l", "o", "a", "d", "_", "h", "i", "s", "t", "o", "r", "y">>, "show_download_history"),
      Route(TRUE, <<"k", "i", "n", "d", "l", "e", "_", "h", "i", "s", "t", "o", "r", "y">>, "show_kindle_history"),
      Route(TRUE, <<"a", "d", "m", "i", "n", "_", "c", "l", "e", "a", "r", "_", "d", "u", "p", "l", "i", "c", "a", "t", "e", "s">>, "admin_clear_duplicates"),
      Route(TRUE, <<"a", "d", "m", "i", "n", "_", "c", "l", "e", "a", "r", "_", "c", "a", "c", "h", "e">>, "admin_clear_cache"),
      Route(TRUE, <<"a", "d", "m", "i", "n", "_", "u", "s", "e", "r", "s">>, "admin_users_list"),
      Route(TRUE, <<"a", "d", "m", "i", "n", "_", "s", "t", "a", "t", "s">>, "admin_detailed_stats"),
      Route(TRUE, <<"a", "d", "m", "i", "n", "_", "a", "d", "d">>, "admin_add_admin"),
      Route(TRUE, <<"a", "d", "m", "i", "n", "_", "p", "a", "n", "e", "l">>, "admin_panel_callback")>>

\* The filter of a registration passes the callback data.
Matches(r, data) == IF r.exact THEN data = r.text ELSE StartsWith(data, r.text)

\* The dispatcher: the first registered handler whose filter passes gets the
\* callback; "unhandled" when none does.
route(data) ==
    LET hits == {i \in 1..Len(Routes) : Matches(Routes[i], data)}
    IN  IF hits = {} THEN "unhandled" ELSE Routes[FirstSuch(hits)].handler

\* The callback data of the buttons the bot's keyboards hold.
CallbackData ==
    {<<"n", "o", "_", "a", "c", "t", "i", "o", "n">>, <<"p", "a", "g", "e", "_", "w", "a", "r", "_", "2">>, <<"s", "e", "l", "e", "c", "t", "_", "b", "o", "o", "k", "_", "4", "2">>, <<"d", "o", "w", "n", "l", "o", "a", "d", "_", "4", "2", "_", "e", "p", "u", "b">>, <<"k", "i", "n", "d", "l", "e", "_", "4", "2">>,
     <<"m", "a", "i", "n", "_", "m", "e", "n", "u">>, <<"k", "i", "n", "d", "l", "e", "_", "s", "e", "t", "t", "i", "n", "g", "s">>, <<"d", "o", "w", "n", "l", "o", "a", "d", "_", "h", "i", "s", "t", "o", "r", "y">>, <<"k", "i", "n", "d", "l", "e", "_", "h", "i", "s", "t", "o", "r", "y">>,
     <<"a", "d", "m", "i", "n", "_", "p", "a", "n", "e", "l">>, <<"a", "d", "m", "i", "n", "_", "a", "d", "d">>}

FrontInit ==
    /\ search_results = <<>>
    /\ shown = NoMessage
    /\ pressed = NoPress
    /\ routed = [data |-> <<>>, handler |-> "none"]

\* process_search_query: the state is cleared; search_books gives n books (none
\* when the login or the search fails), which are stored, and page 1 is shown.
ProcessSearchQuery ==
    /\ \E query \in Queries, n \in 0..MaxBooks :
        LET books == [i \in 1..n |-> i]
        IN  /\ search_results' = books
            /\ shown' = IF n = 0 THEN NoMessage
                        ELSE create_search_results_content(
                                PySlice(books, 0, PAGE_SIZE), 1, Len(books), query)
    /\ pressed' = NoPress
    /\ UNCHANGED <<routed, lockVars, parserVars, sessionVars, cardVars, adminVars>>

\* process_page_callback, for a page button of the message on screen: the token
\* is parsed, the page is cut from the stored results and the message is edited;
\* an exception is logged and changes nothing.
ProcessPageCallback ==
    /\ \E b \in shown.buttons :
        LET parsed == parse_page_token(b.data)
        IN  /\ Len(b.query) <= MaxQueryLen
            /\ pressed' = [data |-> b.data, query |-> b.query, page |-> b.page,
                           parsed |-> parsed]
            /\ IF parsed = <<>> \/ search_results = <<>>
               THEN UNCHANGED shown
               ELSE shown' = create_search_results_content(
                                page_books(search_results, parsed[1].page),
                                parsed[1].page,
                                Len(search_results),
                                escape_markdown(parsed[1].query))
    /\ UNCHANGED <<search_results, routed, lockVars, parserVars, sessionVars, cardVars, adminVars>>

\* The dispatcher hands a callback query to the handler that route names.
DispatchCallback ==
    /\ \E data \in CallbackData : routed' = [data |-> data, handler |-> route(data)]
    /\ UNCHANGED <<search_results, shown, pressed, lockVars, parserVars, sessionVars, cardVars, adminVars>>

FrontNext ==
    \/ ProcessSearchQuery
    \/ ProcessPageCallback
    \/ DispatchCallback

\* ------------------------------------------------- book card and download

\* The book pages the card and download handlers meet in the model: those of
\* DetailPages without annotation and without format select.
CardPages == {p \in DetailPages : p.annotation = <<>> /\ p.select = <<>>}

\* What await parser.get_book_details(book_id) gives a handler: None or a record.
CardDetails == {<<>>} \cup {details_result(p, <<"4", "2">>, TRUE) : p \in CardPages}

\* book_details[key] raises: TypeError on None, KeyError on a dict without key.
subscript_raises(details, key) == details = <<>> \/ details[1][key] = <<>>

\* The run of a handler: its inputs, and how it ended.
\* io_error says that a Telegram or database call of the run raised.
Outcome(handler, details, content, io_error, result, saved) ==
    [handler |-> handler, details |-> details, content |-> content,
     io_error |-> io_error, result |-> result, saved |-> saved]

CardInit ==
    /\ downloaded_books = {}
    /\ last_run = Outcome("none", <<>>, FALSE, FALSE, "none", FALSE)

\* process_book_selection_from_search: login, get_book_details, then the card is
\* built from book_details['title'] and book_details['author'] and shown; any
\* exception ends in the except block, which logs and reports the error.
ProcessBookSelection ==
    /\ \E login \in BOOLEAN, details \in CardDetails, edit_raises \in BOOLEAN :
        last_run' =
            Outcome("select", details, FALSE, edit_raises,
                    IF ~login THEN "login_failed"
                    ELSE IF details = <<>> THEN "no_details"
                    ELSE IF subscript_raises(details, "title")
                            \/ subscript_raises(details, "author")
                            \/ edit_raises THEN "error"
                    ELSE "card",
                    FALSE)
    /\ UNCHANGED <<downloaded_books, lockVars, parserVars, sessionVars, frontVars, adminVars>>

\* process_download: login, download_book, then get_book_details; the file name
\* and the caption are built from book_details['title'] and book_details['author'],
\* the document is sent and the row is saved; any exception ends in the except
\* block, which logs and reports the error.
ProcessDownload ==
    /\ \E login \in BOOLEAN, content \in BOOLEAN, details \in CardDetails,
          send_raises \in BOOLEAN, save_raises \in BOOLEAN :
        LET sent == /\ login
                    /\ content
                    /\ ~subscript_raises(details, "title")
                    /\ ~subscript_raises(details, "author")
                    /\ ~send_raises
            saved == sent /\ ~save_raises
        IN  /\ last_run' =
                Outcome("download", details, login /\ content, send_raises \/ save_raises,
                        IF ~login THEN "login_failed"
                        ELSE IF ~content THEN "no_content"
                        ELSE IF ~sent THEN "error"
                        ELSE IF ~saved THEN "document_then_error"
                        ELSE "document",
                        saved)
            /\ downloaded_books' =
                IF saved
                THEN downloaded_books
                        \cup {<<details[1].title[1], details[1].author[1], <<"e", "p", "u", "b">>>>}
                ELSE downloaded_books
    /\ UNCHANGED <<lockVars, parserVars, sessionVars, frontVars, adminVars>>

CardNext ==
    \/ ProcessBookSelection
    \/ ProcessDownload

\* ------------------------------------------------------------------ admins

\* Telegram ids of the users who send admin commands, and of those they name.
AdminIds == {7, 12}

\* A command suspended at an await: pc "idle" when the user runs none; count is
\* what setup_admin read with SELECT COUNT(*); allowed is what is_admin returned,
\* was_admin whether the caller was in the table at that moment; target is the id
\* given to add_admin or remove_admin.
Command(pc, count, allowed, was_admin, target) ==
    [pc |-> pc, count |-> count, allowed |-> allowed, was_admin |-> was_admin,
     target |-> target]

Idle == Command("idle", 0, FALSE, FALSE, 0)

\* is_admin: the row exists; False on a database error.
is_admin(admins, telegram_id, db_error) == ~db_error /\ telegram_id \in admins

\* add_admin: INSERT OR REPLACE INTO admin_users
add_admin(admins, telegram_id) == admins \cup {telegram_id}

AdminInit ==
    /\ admin_users = {}
    /\ apc = [u \in AdminIds |-> Idle]

\* cmd_setup_admin up to the end of its SELECT COUNT(*); a database error ends
\* the command in the except block.
CmdSetupAdminCount(u) ==
    /\ apc[u].pc = "idle"
    /\ \E db_error \in BOOLEAN :
        apc' = [apc EXCEPT ![u] =
                    IF db_error THEN Idle
                    ELSE Command("setup_counted", Cardinality(admin_users), FALSE, FALSE, u)]
    /\ UNCHANGED <<admin_users, lockVars, parserVars, sessionVars, frontVars, cardVars>>

\* cmd_setup_admin after the count: with admin_count > 0 it answers and returns,
\* else it awaits add_admin for its caller.
CmdSetupAdminAdd(u) ==
    /\ apc[u].pc = "setup_counted"
    /\ \E db_error \in BOOLEAN :
        admin_users' = IF apc[u].count > 0 \/ db_error THEN admin_users
                       ELSE add_admin(admin_users, u)
    /\ apc' = [apc EXCEPT ![u] = Idle]
    /\ UNCHANGED <<lockVars, parserVars, sessionVars, frontVars, cardVars>>

\* cmd_add_admin and cmd_remove_admin up to the end of "await is_admin"; without
\* the rights the command answers and returns.
CmdCheckAdmin(u) ==
    /\ apc[u].pc = "idle"
    /\ \E cmd \in {"add_checked", "remove_checked"}, target \in AdminIds, db_error \in BOOLEAN :
        LET allowed == is_admin(admin_users, u, db_error)
        IN  apc' = [apc EXCEPT ![u] =
                        IF allowed THEN Command(cmd, 0, allowed, u \in admin_users, target)
                        ELSE Idle]
    /\ UNCHANGED <<admin_users, lockVars, parserVars, sessionVars, frontVars, cardVars>>

\* cmd_add_admin after the check: await add_admin(new_admin_id).
CmdAddAdmin(u) ==
    /\ apc[u].pc = "add_checked"
    /\ \E db_error \in BOOLEAN :
        admin_users' = IF db_error THEN admin_users
                       ELSE add_admin(admin_users, apc[u].target)
    /\ apc' = [apc EXCEPT ![u] = Idle]
    /\ UNCHANGED <<lockVars, parserVars, sessionVars, frontVars, cardVars>>

\* cmd_remove_admin after the check: DELETE FROM admin_users WHERE telegram_id = ?
CmdRemoveAdmin(u) ==
    /\ apc[u].pc = "remove_checked"
    /\ \E db_error \in BOOLEAN :
        admin_users' = IF db_error THEN admin_users
                       ELSE admin_users \ {apc[u].target}
    /\ apc' = [apc EXCEPT ![u] = Idle]
    /\ UNCHANGED <<lockVars, parserVars, sessionVars, frontVars, cardVars>>

AdminNext ==
    \E u \in AdminIds :
        \/ CmdSetupAdminCount(u)
        \/ CmdSetupAdminAdd(u)
        \/ CmdCheckAdmin(u)
        \/ CmdAddAdmin(u)
        \/ CmdRemoveAdmin(u)

Init == LockInit /\ ParserInit /\ SessionInit /\ FrontInit /\ CardInit /\ AdminInit

\* The bot's send-lock guard.
Spec == Init /\ [][LockNext]_vars

\* The sweep and the clock always get their turn: the sweep is a task of the event
\* loop, which resumes it once its sleep is over.
FairSpec ==
    /\ Spec
    /\ WF_vars(Tick)
    /\ WF_vars(CleanupLocksPeriodically)

\* One FlibustaParser session, call after call.
ParserSpec == Init /\ [][ParserNext]_vars

\* The handlers that open FlibustaParser sessions, interleaved at their awaits.
SessionSpec == Init /\ [][SessionNext]_vars

FrontSpec == Init /\ [][FrontNext]_vars

CardSpec == Init /\ [][CardNext]_vars

AdminSpec == Init /\ [][AdminNext]_vars

\* ------------------------------------------------------ lock guard: claims

\* The keys of the model.
LockKeys == {LockKey(u, SplitOnce(data, "_")[2]) : u \in Users, data \in KindleCallbacks}

\* h runs the lock check of process_kindle_send in this step (tryAcquire).
TryAcquireStep(h) == hpc[h] = "idle" /\ hpc'[h] \in {"answer_busy", "get_email"}

\* h calls remove_kindle_sending_lock in this step (release).
ReleaseStep(h) == \E pc \in {"idle", "answer_no_email", "answer_mail_failed"} : Release(h, pc)

\* Between the successful acquisition of the lock and the end of the mail.
InFlight(h) ==
    hpc[h] \in {"get_email", "login_details", "get_book_details", "check_already_sent",
                "answer_sending", "login_download", "download_book"}

\* C1: a tryAcquire succeeds, and records a lock stamped with the current time
\* (age 0) leaving every other key alone, iff its key holds no lock; it is refused,
\* changing nothing, iff the key holds one (so a second tryAcquire with no release
\* or sweep in between is refused); a release leaves its key without a lock, so the
\* next tryAcquire succeeds; and two (recipient, book id) pairs never share a key.
C1_TryAcquire ==
    /\ \A u1, u2 \in Users \cup {1}, b1, b2 \in {<<"4", "2">>, <<"2", "_", "4", "2">>} :
          LockKey(u1, b1) = LockKey(u2, b2) => u1 = u2 /\ b1 = b2
    /\ [][\A h \in Handlers :
        /\ TryAcquireStep(h) =>
              LET key == LockKey(huser'[h], hbook'[h])
              IN  /\ (hpc'[h] = "get_email") <=> (key \notin DOMAIN kindle_sending_locks)
                  /\ hpc'[h] = "get_email" =>
                        /\ key \in DOMAIN kindle_sending_locks'
                        /\ kindle_sending_locks'[key] = 0
                        /\ \A k \in LockKeys \ {key} :
                              /\ (k \in DOMAIN kindle_sending_locks')
                                     <=> (k \in DOMAIN kindle_sending_locks)
                              /\ k \in DOMAIN kindle_sending_locks =>
                                    kindle_sending_locks'[k] = kindle_sending_locks[k]
                  /\ hpc'[h] = "answer_busy" =>
                        kindle_sending_locks' = kindle_sending_locks
        /\ ReleaseStep(h) => HKey(h) \notin DOMAIN kindle_sending_locks'
      ]_vars

\* C1 witness: an invocation was refused the lock that another one holds.
C1_Witness ==
    \E h, g \in Handlers :
        /\ hpc[h] = "answer_busy"
        /\ InFlight(g)
        /\ HKey(g) = HKey(h)
        /\ HKey(h) \in DOMAIN kindle_sending_locks

\* C2: at most one invocation at a time is between its successful acquisition of
\* the lock and the end of its send, for a given (recipient, book id).
C2_MutualExclusion ==
    \A h, g \in Handlers :
        (h # g /\ InFlight(h) /\ InFlight(g)) => HKey(h) # HKey(g)

\* C3: a tryAcquire on a key whose lock is older than the expiry succeeds, whether
\* or not a sweep has run since the lock expired.
C3_ExpiredLockAcquirable ==
    [][\A h \in Handlers :
        (/\ TryAcquireStep(h)
         /\ LockKey(huser'[h], hbook'[h]) \in DOMAIN kindle_sending_locks
         /\ kindle_sending_locks[LockKey(huser'[h], hbook'[h])] > LOCK_EXPIRY)
        => hpc'[h] = "get_email"
      ]_vars

\* C4: every lock is eventually removed, released or not; the sweep removes exactly
\* the locks older than the expiry; and the sweep loop runs again and again.
C4_LockEventuallyRemoved ==
    /\ \A k \in LockKeys :
          (k \in DOMAIN kindle_sending_locks) ~> (k \notin DOMAIN kindle_sending_locks)
    /\ [][CleanupLocksPeriodically =>
            \A k \in DOMAIN kindle_sending_locks :
                (k \in DOMAIN kindle_sending_locks')
                    <=> ~(kindle_sending_locks[k] > LOCK_EXPIRY)
         ]_vars
    /\ []<><<CleanupLocksPeriodically>>_vars

\* C4 witness: the sweep has just removed a lock that an invocation left behind
\* when it returned.
C4_Witness ==
    /\ last_op.op = "cleanup"
    /\ last_op.keys # {}
    /\ \A h \in Handlers : hpc[h] = "idle"

\* C5: a release and a sweep on the same key, in either order, both complete
\* without KeyError, and each leaves the key (every expired key) without a lock.
C5_ReleaseSweepIdempotent ==
    [][/\ \A h \in Handlers :
            ReleaseStep(h) => (HKey(h) \notin DOMAIN kindle_sending_locks' /\ ~key_error')
       /\ CleanupLocksPeriodically =>
            /\ \A k \in DOMAIN kindle_sending_locks' : ~IsExpired(kindle_sending_locks'[k])
            /\ ~key_error'
      ]_vars

\* C5 witness: an invocation released its lock right after the sweep removed it.
C5_Witness == last_op.op = "remove" /\ last_op.after_sweep

\* ---------------------------------------------------- FlibustaParser: claims

\* The call op has returned.
Returned(op) == ppc = "ready" /\ ret.op = op

\* The places of the requests of the given kind in the trace.
Requests(kind) == {i \in 1..Len(trace) : trace[i].kind = kind}

\* Neither success marker: no 'user' in the final URL, no 'logout' in the body.
NoMarkers(resp) == ~Contains(resp.url, <<"u", "s", "e", "r">>) /\ ~Contains(resp.text, <<"l", "o", "g", "o", "u", "t">>)

\* The login page could not be fetched, or holds no form with method "post".
LoginPageFailed(resp) ==
    \/ resp.err # "none"
    \/ resp.status # 200
    \/ \A i \in 1..Len(resp.forms) : resp.forms[i].method # "post"

\* C6: when search_books, get_book_details or download_book returns after it
\* issued a request, whatever the answer, the pacing sleep is the last thing it did.
C6_PacingOnEveryReturn ==
    \A op \in {"search", "details", "download"} :
        (Returned(op) /\ Requests("GET") # {}) => trace[Len(trace)].kind = "sleep"

\* C7: when the credential POST is answered 200 with the login page served again
\* (final URL the login path, no logout link in the body), login returns False and
\* the session is not authenticated.
C7_InvalidCredentialsRejected ==
    (/\ Returned("login")
     /\ at_call.auth = FALSE
     /\ \E i \in Requests("POST") :
            /\ trace[i].resp.err = "none"
            /\ trace[i].resp.status = 200
            /\ trace[i].resp.url = LoginUrl
            /\ ~Contains(trace[i].resp.text, <<"l", "o", "g", "o", "u", "t">>))
    => (ret.value = FALSE /\ ~is_authenticated)

\* C8 as stated: whenever login returns False, the session is not authenticated
\* and holds no user id, also on a session an earlier login had authenticated.
C8_FailedLoginUnauthenticated ==
    (Returned("login") /\ ret.value = FALSE) => (~is_authenticated /\ user_id = <<>>)

\* C8 as amended: whenever login returns False, the authenticated flag and the user
\* id are what they were when login was called; they are False and unset on a
\* session that was not authenticated then.
C8_FailedLoginChangesNothing ==
    (Returned("login") /\ ret.value = FALSE) =>
        /\ is_authenticated = at_call.auth
        /\ user_id = at_call.uid
        /\ ~at_call.auth => (~is_authenticated /\ user_id = <<>>)

\* C8 witness: on a session an earlier login had authenticated, login returned
\* False after its POST was answered, and the session still counts as authenticated.
C8_Witness ==
    /\ Returned("login")
    /\ ret.value = FALSE
    /\ at_call.auth
    /\ is_authenticated
    /\ Requests("POST") # {}

\* C9: login returns True, with the flag set, only if the answer to the POST has
\* 'user' in its final URL or 'logout' in its body; when it has neither, login
\* returns False whatever the status.
C9_SuccessOnlyByMarkers ==
    Returned("login") =>
        /\ ret.value = TRUE =>
              /\ is_authenticated
              /\ \E i \in Requests("POST") : ~NoMarkers(trace[i].resp)
        /\ (\E i \in Requests("POST") : NoMarkers(trace[i].resp)) => ret.value = FALSE

\* C9 witness: the POST was answered 200 with neither marker, and login failed.
C9_Witness ==
    /\ Returned("login")
    /\ ret.value = FALSE
    /\ \E i \in Requests("POST") :
          /\ trace[i].resp.err = "none"
          /\ trace[i].resp.status = 200
          /\ NoMarkers(trace[i].resp)

\* C10: when the GET of the login page raises or is answered with another status
\* than 200, or the page holds no login form, login returns False, has issued no
\* POST, and has left the authenticated flag as it was.
C10_NoPostWithoutForm ==
    (Returned("login") /\ trace # <<>> /\ LoginPageFailed(trace[1].resp)) =>
        /\ ret.value = FALSE
        /\ Requests("POST") = {}
        /\ is_authenticated = at_call.auth

\* C10 witness: on an authenticated session, login returned False on a page that
\* was fetched and holds a form, but none with method "post".
C10_Witness ==
    /\ Returned("login")
    /\ ret.value = FALSE
    /\ at_call.auth
    /\ trace # <<>>
    /\ trace[1].resp.err = "none"
    /\ trace[1].resp.status = 200
    /\ trace[1].resp.forms # <<>>
    /\ LoginPageFailed(trace[1].resp)

\* C11: within one login, every request (the login-page GET, the credential POST,
\* the profile GET) is followed by a pacing sleep before the next request is sent.
C11_PacingBetweenLoginRequests ==
    (trace # <<>> /\ trace[1].url = LoginUrl) =>
        \A i \in 1..(Len(trace) - 1) :
            trace[i].kind \in {"GET", "POST"} => trace[i + 1].kind = "sleep"

\* -------------------------------------------------- search_books: claims

\* search_books has returned from a page that was fetched and parsed.
SearchDone == Returned("search") /\ page_ok(trace[1].resp)

\* The page search_books was answered with.
SearchPage == trace[1].resp.page

\* An item is well formed: it holds a book anchor whose text is not blank.
WellFormed(item) ==
    \E i \in 1..Len(item) : IsBookHref(item[i].href) /\ Strip(item[i].text) # <<>>

\* The book id of a well-formed item: that of its first book anchor.
ItemId(item) ==
    SearchNumberAfter(item[FirstSuch({i \in 1..Len(item) : IsBookHref(item[i].href)})].href,
                      <<"/", "b", "/">>)

\* The page has the marker heading followed by a list of well-formed items only.
MarkerPage ==
    /\ SearchDone
    /\ books_section(SearchPage) # 0
    /\ \A i \in 1..Len(SearchPage[books_section(SearchPage)].items) :
          WellFormed(SearchPage[books_section(SearchPage)].items[i])

\* C12: from a page with the marker heading followed by a list of N well-formed
\* items, search_books with cap limit returns min(N, limit) records, in document
\* order, each with a non-empty title and a book id no other record has.
C12_SearchYieldsMinRecords ==
    MarkerPage =>
        LET items == SearchPage[books_section(SearchPage)].items
            books == ret.value
        IN  /\ Len(books) = Min(Len(items), at_call.args.limit)
            /\ \A i \in 1..Len(books) :
                  /\ books[i].book_id = ItemId(items[i])
                  /\ books[i].title # <<>>
            /\ \A i, j \in 1..Len(books) :
                  i # j => books[i].book_id # books[j].book_id

\* The book ids of the items of the list that follows the marker heading; none
\* when no list follows it.
SectionIds ==
    IF books_section(SearchPage) = 0 THEN {}
    ELSE LET items == SearchPage[books_section(SearchPage)].items
         IN  {ItemId(items[i]) :
                i \in {k \in 1..Len(items) :
                         \E a \in 1..Len(items[k]) : IsBookHref(items[k][a].href)}}

\* C13: the whole-document scan is used exactly when the marker heading is absent:
\* when a heading holds the marker, every record comes from an item of the list that
\* follows the heading; when none does, the records are those of the scan.
C13_FallbackOnlyWithoutMarker ==
    SearchDone =>
        IF marker_heading(SearchPage) # 0
        THEN \A i \in 1..Len(ret.value) : ret.value[i].book_id \in SectionIds
        ELSE ret.value = fallback_records(SearchPage, at_call.args.limit)

\* search_books has returned from a page that has no heading with the marker.
FallbackPage == SearchDone /\ marker_heading(SearchPage) = 0

\* The book anchors of the page, in document order.
BookAnchors == SelectSeq(AllAnchors(SearchPage), LAMBDA x : IsBookHref(x.href))

\* The places in BookAnchors of the anchors whose text is not blank.
Titled == {i \in 1..Len(BookAnchors) : Strip(BookAnchors[i].text) # <<>>}

\* Title and id set, every author field unset.
MinimalRecord(b) ==
    /\ b.title # <<>>
    /\ b.book_id # <<>>
    /\ b.author = <<>> /\ b.author_url = <<>> /\ b.author_id = <<>> /\ b.authors = <<>>

\* C14 as stated: from a page without the marker heading that holds K book anchors
\* with non-empty text, search_books returns min(K, cap) records, never more than
\* cap, each with title and id set and the other fields unset.
C14_FallbackYieldsMinRecords ==
    FallbackPage =>
        /\ Len(ret.value) = Min(Cardinality(Titled), at_call.args.limit)
        /\ Len(ret.value) <= at_call.args.limit
        /\ \A i \in 1..Len(ret.value) : MinimalRecord(ret.value[i])

\* C14 as amended: search_books returns one record for each anchor with non-empty
\* text among the first cap book anchors of the page, in document order: never more
\* than cap, min(K, cap) when none of these anchors has an empty text; each record
\* has title, id and URL set and the author fields unset.
C14_FallbackCapsBeforeFilter ==
    FallbackPage =>
        LET firsts == {i \in Titled : i <= at_call.args.limit}
            books == ret.value
        IN  /\ Len(books) = Cardinality(firsts)
            /\ Len(books) <= at_call.args.limit
            /\ (\A i \in 1..Min(at_call.args.limit, Len(BookAnchors)) : i \in Titled)
                  => Len(books) = Min(Cardinality(Titled), at_call.args.limit)
            /\ \A i \in 1..Len(books) :
                  /\ MinimalRecord(books[i])
                  /\ books[i].book_url # <<>>
                  /\ \E j \in firsts :
                        /\ Cardinality({k \in firsts : k < j}) = i - 1
                        /\ books[i].title = Strip(BookAnchors[j].text)
                        /\ books[i].book_id =
                              SearchNumberAfter(BookAnchors[j].href, <<"/", "b", "/">>)

\* C14 witness: the scan met an anchor with an empty text among the first cap book
\* anchors, and returned fewer records than min(K, cap).
C14_Witness ==
    /\ FallbackPage
    /\ ret.value # <<>>
    /\ Len(ret.value) < Min(Cardinality(Titled), at_call.args.limit)

\* --------------------------------------------- get_book_details: claims

\* get_book_details has returned a record.
DetailsRecord == Returned("details") /\ ret.value # <<>>

\* The page get_book_details was answered with.
DetailsPage == trace[1].resp.page

\* C15: get_book_details returns a record with download_links only when
\* is_authenticated was true when it was called, after any sequence of login and
\* logout calls and on any page.
C15_LinksOnlyWhenAuthenticated ==
    (DetailsRecord /\ ret.value[1].download_links # <<>>) => at_call.auth

\* C15 witness: a record with download links, returned on an authenticated session.
C15_Witness ==
    /\ DetailsRecord
    /\ ret.value[1].download_links # <<>>
    /\ at_call.auth
    /\ is_authenticated

\* The format tags of a download link.
FormatTags ==
    {<<"E", "P", "U", "B">>, <<"F", "B", "2">>, <<"M", "O", "B", "I">>, <<"P", "D", "F">>,
     <<"T", "X", "T">>, <<"U", "N", "K", "N", "O", "W", "N">>}

\* C16: every download link of a record of get_book_details has a format tag among
\* EPUB, FB2, MOBI, PDF, TXT and UNKNOWN, whichever rule gave the tag.
C16_FormatTagControlled ==
    DetailsRecord =>
        \A i \in 1..Len(ret.value[1].download_links) :
            ret.value[1].download_links[i].format \in FormatTags

\* -------------------------------------------------- download_book: claims

\* C17: download_book issues one GET, to the URL built from the id and the
\* lowercased format; it returns the bytes for every 2xx status and a failure
\* value, without raising or retrying, for any other status or a network error.
C17_DownloadBytesOn2xx ==
    Returned("download") =>
        /\ Len(trace) = 1
        /\ trace[1].kind = "GET"
        /\ trace[1].url = BookUrl(at_call.args.book_id) \o <<"/">>
                            \o Lower(at_call.args.format_type)
        /\ (trace[1].resp.err = "none" /\ trace[1].resp.status \in 200..299)
              <=> ret.value = "bytes"
        /\ ret.value \in {"bytes", "None"}

\* ------------------------------------------------------- sessions: claims

\* C18: a handler that has returned or failed has closed every session it opened;
\* a handler has at most one session open, and only inside a block; no session is
\* open in two handlers.
C18_SessionPerInteraction ==
    /\ \A h \in Handlers :
          /\ skind[h] = "none" => sopen[h] = {}
          /\ ~sinside[h] => sopen[h] = {}
          /\ Cardinality(sopen[h]) <= 1
    /\ \A h, g \in Handlers : h # g => sopen[h] \cap sopen[g] = {}

\* C18 witness: process_kindle_send is inside its second block, with one session
\* open, while another handler is inside its block with its own session.
C18_Witness ==
    \E h, g \in Handlers :
        /\ h # g
        /\ skind[h] = "process_kindle_send" /\ sblock[h] = 2 /\ sinside[h]
        /\ Cardinality(sopen[h]) = 1
        /\ sinside[g] /\ sopen[g] # {}

\* ---------------------------------------------------------------------------
\* C19. Historical duplicate detection under concurrency: for one recipient a
\* book is mailed at most once, so no two interactions for the same recipient
\* and book have both passed the history check and both got their mail out.
\* A handler at save_kindle_sent_book has just mailed the book (success was
\* true) and has not yet written its history row.
Delivered(h) == hpc[h] = "save_kindle_sent_book"

C19_MailedAtMostOnce ==
    \A h, g \in Handlers :
        (h # g /\ Delivered(h) /\ Delivered(g)) => HKey(h) # HKey(g)

\* get_book_details has returned from a GET answered 200 with a book page.
DetailsFromPage == Returned("details") /\ page_ok(trace[1].resp)

\* What the page lacks: an author link, a genre link, an annotation heading, any
\* source of download links (the format select and the download anchors).
LacksAuthor(page) == \A i \in 1..Len(page.anchors) : ~IsAuthorHref(page.anchors[i].href)
LacksGenres(page) == \A i \in 1..Len(page.anchors) : ~IsGenreHref(page.anchors[i].href)
LacksDescription(page) == page.annotation = <<>>
LacksDownloadLinks(page) ==
    /\ page.select = <<>>
    /\ \A i \in 1..Len(page.anchors), p \in 1..3 :
            ~MatchesDownloadPattern(p, page.anchors[i].href)

\* C20: get_book_details never fails on a missing optional field: from a 200 book
\* page that lacks any of author, genres, description or download links it returns
\* a record (not None) in which the fields the page lacks are unset.
C20_MissingOptionalFieldsUnset ==
    DetailsFromPage =>
        /\ ret.value # <<>>
        /\ LET book_info == ret.value[1]
               page == DetailsPage
           IN  /\ LacksAuthor(page) =>
                    /\ book_info.author = <<>>
                    /\ book_info.author_url = <<>>
                    /\ book_info.author_id = <<>>
               /\ LacksGenres(page) => book_info.genres = <<>>
               /\ LacksDescription(page) => book_info.description = <<>>
               /\ LacksDownloadLinks(page) => book_info.download_links = <<>>

\* C20 witness: a record returned on an authenticated session from a page that
\* lacks all four optional fields.
C20_Witness ==
    /\ DetailsFromPage
    /\ at_call.auth
    /\ LacksAuthor(DetailsPage)
    /\ LacksGenres(DetailsPage)
    /\ LacksDescription(DetailsPage)
    /\ LacksDownloadLinks(DetailsPage)
    /\ ret.value # <<>>
    /\ ret.value[1].author = <<>>
    /\ ret.value[1].download_links = <<>>

\* ------------------------------------------------------- login: the user id

\* The profile requests of the call: GET /user.
ProfileRequests == {i \in Requests("GET") : trace[i].url = ProfileUrl}

\* The profile gave no user id: the request raised, the status was not 200, or
\* no anchor of the page has an href with /user/ and a number.
NoUserId(resp) ==
    \/ resp.err # "none"
    \/ resp.status # 200
    \/ \A i \in 1..Len(resp.links) :
            SearchNumberAfter(resp.links[i], <<"/", "u", "s", "e", "r", "/">>) = <<>>

\* C21: a failure to find the user id is not fatal: when the credential POST
\* showed success and the profile request gave no user id, login returns True,
\* the session is authenticated, and user_id is left as it was at the call:
\* unset on a session that had none.
C21_UserIdFailureNonFatal ==
    (Returned("login") /\ \E i \in ProfileRequests : NoUserId(trace[i].resp)) =>
        /\ \E i \in Requests("POST") : ~NoMarkers(trace[i].resp)
        /\ ret.value = TRUE
        /\ is_authenticated
        /\ user_id = at_call.uid
        /\ at_call.uid = <<>> => user_id = <<>>

\* C21 witness: login returned True on a session without user id although the
\* profile page, answered 200, held anchors and none of them a user link.
C21_Witness ==
    /\ Returned("login")
    /\ ret.value = TRUE
    /\ is_authenticated
    /\ at_call.uid = <<>>
    /\ user_id = <<>>
    /\ \E i \in ProfileRequests :
          /\ trace[i].resp.err = "none"
          /\ trace[i].resp.status = 200
          /\ trace[i].resp.links # <<>>
          /\ NoUserId(trace[i].resp)

\* ------------------------------------------------------------ front end: claims

\* ceil(n / 10), by its definition: the least number of pages of 10 that hold n.
PagesFor(n) == CHOOSE c \in 0..n : PAGE_SIZE * c >= n /\ (c = 0 \/ PAGE_SIZE * (c - 1) < n)

\* The records of page p of a list, by position: 10 * (p - 1) + 1 .. 10 * p.
GroupOf(list, p) ==
    [k \in 1..Min(PAGE_SIZE, Len(list) - PAGE_SIZE * (p - 1)) |-> list[PAGE_SIZE * (p - 1) + k]]

\* C22: the stored result list is paged in groups of 10: each of the pages
\* 1..ceil(L/10) holds at most 10 records, the pages in order make up the whole
\* list, in its order, nothing lost or repeated, the message on screen shows the
\* group of its page, and it has the next-page button exactly when its page is
\* below ceil(L/10).
C22_PagedInGroupsOfTen ==
    LET L == Len(search_results)
        last == PagesFor(L)
    IN  /\ \A p \in 1..last :
              /\ Len(page_books(search_results, p)) <= PAGE_SIZE
              /\ page_books(search_results, p) = GroupOf(search_results, p)
        /\ Flatten([p \in 1..last |-> page_books(search_results, p)]) = search_results
        /\ shown.page >= 1 =>
              /\ shown.page <= last => shown.books = GroupOf(search_results, shown.page)
              /\ (\E b \in shown.buttons : b.page = shown.page + 1) <=> shown.page < last

\* C22 witness: the third and last page of 21 records is on screen, reached by
\* page buttons: it holds the 21st record and has no next-page button.
C22_Witness ==
    /\ Len(search_results) = 2 * PAGE_SIZE + 1
    /\ pressed.parsed # <<>>
    /\ shown.page = 3
    /\ shown.books = <<search_results[2 * PAGE_SIZE + 1]>>
    /\ \A b \in shown.buttons : b.page = 2

\* ---------------------------------------------------------------- titles

\* A title free of highlighting markup and of repeated whitespace: no "<span"
\* and no "</span>" in it, no two whitespace characters in a row.
CleanTitle(t) ==
    /\ ~Contains(t, <<"<", "s", "p", "a", "n">>)
    /\ ~Contains(t, <<"<", "/", "s", "p", "a", "n", ">">>)
    /\ \A i \in 1..(Len(t) - 1) : ~(IsSpace(t[i]) /\ IsSpace(t[i + 1]))

\* C23: every title returned by search_books, on the primary or the fallback
\* path, and by get_book_details, from the title heading or the page title, is
\* free of highlighting markup remnants and of two whitespace characters in a row.
C23_TitlesClean ==
    /\ Returned("search") =>
          \A i \in 1..Len(ret.value) : CleanTitle(ret.value[i].title)
    /\ (Returned("details") /\ ret.value # <<>>) =>
          (ret.value[1].title # <<>> => CleanTitle(ret.value[1].title[1]))

\* ------------------------------------------------- lock guard: release paths

\* h has acquired the lock and has not finished: it is between
\* set_kindle_sending_lock and its return.
Running(h) ==
    \/ InFlight(h)
    \/ hpc[h] \in {"answer_and_return", "save_kindle_sent_book", "answer_mailed",
                   "answer_no_email", "answer_mail_failed"}

\* C24: an invocation of process_kindle_send that acquired the lock releases it
\* before it finishes, on every exit path: no key holds a lock unless an
\* invocation that acquired that key is still running.
C24_ReleasedOnEveryExit ==
    \A k \in DOMAIN kindle_sending_locks :
        \E h \in Handlers : Running(h) /\ HKey(h) = k

\* h was refused the lock: it is at the answer that follows a positive
\* is_kindle_sending_locked.
Refused(h) == hpc[h] = "answer_busy"

\* C25: a lock is removed only by the invocation that acquired it or by the sweep:
\* no step of an invocation that was refused the lock takes a lock out of
\* kindle_sending_locks.
C25_RemovedOnlyByOwner ==
    [][\A h \in Handlers :
        (Refused(h) /\ hpc'[h] # hpc[h]) =>
            DOMAIN kindle_sending_locks \subseteq DOMAIN kindle_sending_locks'
      ]_vars

\* C26: on a successful delivery the history record is written before the lock is
\* released, and only after the mail was sent: when an invocation that has mailed
\* the book moves on, the history holds its record or its key still holds the
\* lock, so that a later request for the same book meets one of the two; and a
\* row enters the history only from an invocation that has mailed that book.
C26_HistoryBeforeRelease ==
    [][/\ \A h \in Handlers :
            (Delivered(h) /\ hpc'[h] # hpc[h]) =>
                \/ <<huser[h], hbook[h]>> \in kindle_sent_books'
                \/ HKey(h) \in DOMAIN kindle_sending_locks'
       /\ \A row \in kindle_sent_books' \ kindle_sent_books :
            \E h \in Handlers : Delivered(h) /\ row = <<huser[h], hbook[h]>>
      ]_vars

\* ---------------------------------------------------------------- routing

GotRecord(handler) ==
    /\ last_run.handler = handler
    /\ last_run.result # "login_failed"
    /\ last_run.details # <<>>
    /\ last_run.details[1].title # <<>>
    /\ ~last_run.io_error

\* C28: whenever get_book_details returns a record, with or without the optional
\* author, process_book_selection_from_search shows the book card and
\* process_download sends the downloaded file and records it in the history; and
\* when the lookup fails after a successful download, nothing is recorded.
C28_RecordCompletesInteraction ==
    /\ GotRecord("select") => last_run.result = "card"
    /\ (GotRecord("download") /\ last_run.content) =>
          last_run.result = "document" /\ last_run.saved
    /\ (last_run.handler = "download" /\ last_run.content /\ last_run.details = <<>>) =>
          ~last_run.saved

\* ------------------------------------------------------------ admins: claims

\* The admin command of u ends with this step.
Ends(u, pc) == apc[u].pc = pc /\ apc'[u].pc = "idle"

\* C29: admin rights change only on an authorised path: add_admin and
\* remove_admin change the table only for a caller who was an admin when the
\* command checked, and setup_admin adds its caller only when the table holds no
\* admin, so that of setup_admin commands running at once at most one adds its
\* caller.
C29_AdminOnlyByAuthorisedPath ==
    [][\A u \in AdminIds :
        /\ ((Ends(u, "add_checked") \/ Ends(u, "remove_checked"))
                /\ admin_users' # admin_users) => apc[u].was_admin
        /\ (Ends(u, "setup_counted") /\ admin_users' # admin_users) =>
                /\ admin_users = {}
                /\ admin_users' = {u}
      ]_vars

\* C30: the pagination token round-trips: parsing the callback data of a page
\* button in process_page_callback gives the query and the page number the button
\* was built from by get_pagination_keyboard, also for a query that contains "_".
C30_PageTokenRoundTrip ==
    pressed.data # <<>> =>
        /\ pressed.parsed # <<>>
        /\ pressed.parsed[1].query = pressed.query
        /\ pressed.parsed[1].page = pressed.page

====
